---- MODULE Spec2Model ----
(***************************************************************************)
(* Telemetry ingestion and energy aggregation pipeline of CerCollettiva:   *)
(* the energy delta calculator (process_new_measurement), the interval     *)
(* store, the multi-level aggregation with its cache, and the MQTT         *)
(* DeviceManager dispatcher with its deduplication; and the connection     *)
(* layer: CircuitBreaker, MQTTService and EnergyMQTTClient with its         *)
(* reconnect threads; the client's message callback and queue worker,      *)
(* writes refused by the database, the handling of electrical values, the  *)
(* device configurations and their subscriptions, process_new_measurement  *)
(* calls running in two threads, and the ThreadManager.                    *)
(*                                                                         *)
(* Time is counted in seconds since 2024-01-01 00:00:00; energies are in   *)
(* kWh for the calculator and in Wh for the DeviceManager, as in the code. *)
(***************************************************************************)
EXTENDS Integers, Sequences, FiniteSets, TLC

VARIABLES
    comp,           \* the scenario of this behaviour: "calculator" (readings of every
                    \* kind), "cache" (on-time readings and cache recalculation),
                    \* "manager" (the dispatcher), "workers" (concurrent deliveries),
                    \* "store" (direct _save_interval_energy calls), "breaker",
                    \* "client" (EnergyMQTTClient), "service" (MQTTService),
                    \* "inbound" (message callback and queue worker),
                    \* "calculator_faults" and "dispatcher_faults" (the database
                    \* refuses writes at times), "validation" (electrical values),
                    \* "configs" and "configs_signals" (device configurations
                    \* changing; the second with the receivers of
                    \* energy/services/signals.py connected), "concurrent"
                    \* (process_new_measurement calls in two threads),
                    \* "thread_manager" (ThreadManager)
    now,            \* timezone.now(), seconds since 2024-01-01 00:00:00
    last_reading,   \* cache "last_energy_measurement_<device>": device -> [timestamp, total_energy, exp]
    intervals,      \* EnergyInterval rows: set of [device, start_time, interval_type, end_time, energy_value]
    cache,          \* aggregation cache: cache key -> [value, exp]
    call,           \* the reading handed to the latest process_new_measurement call
    recalcs,        \* number of _recalculate_and_cache_aggregations calls so far
    measurements,   \* DeviceMeasurement rows created by the DeviceManager (a sequence)
    last_energy,    \* DeviceManager._last_energy_values: device -> set with the last total (empty = None)
    msg_cache,      \* dedup marks of process_message and _handle_power_message: key -> exp
    last_seen,      \* DeviceConfiguration.last_seen: device -> seconds, -1 = never
    mcall,          \* the latest process_message call of the sequential dispatcher
    workers,        \* concurrent process_message calls: worker -> [pc, topic, payload, created, advanced]
    save_call,      \* the latest direct _save_interval_energy call: its arguments and return value
    breaker,        \* CircuitBreaker: [failures, last_failure_time, state]
    bcall,          \* the latest CircuitBreaker call: [op, ret, at]
    client,         \* EnergyMQTTClient with its paho client
    threads,        \* the running reconnect threads started by _reconnect_with_backoff (a sequence)
    ccall,          \* the latest step of the EnergyMQTTClient
    service,        \* MQTTService with its paho client
    svcall,         \* the latest MQTTService call
    broker,         \* the MQTT broker: reachability, subscriptions, status messages
    inbound,        \* EnergyMQTTClient's inbound path: the message queue, the queue
                    \* worker and the latest run of the message callback
    storage,        \* the database: whether it takes writes, and whether the latest
                    \* pipeline call had a write refused and told its caller
    electrical,     \* DeviceMeasurement rows with their electrical values, and the
                    \* latest result of a device parser
    devcfg,         \* the DeviceConfiguration table, the configurations the
                    \* DeviceManager has loaded, and the client's subscriptions
    race,           \* process_new_measurement calls running in threads: each call's
                    \* position and locals, and the baseline and rows they started from
    tm              \* ThreadManager: the tracking table, the live threads, the
                    \* stop_thread or stop_all call under way, the latest return value

vars == <<comp, now, last_reading, intervals, cache, call, recalcs,
          measurements, last_energy, msg_cache, last_seen, mcall, workers,
          save_call, breaker, bcall, client, threads, ccall, service, svcall, broker,
          inbound, storage, electrical, devcfg, race, tm>>

storeVars == <<save_call>>
extVars == <<inbound, storage, electrical, devcfg, race, tm>>
connVars == <<breaker, bcall, client, threads, ccall, service, svcall, broker>>

calcVars == <<last_reading, intervals, cache, call, recalcs>>
mgrVars  == <<measurements, last_energy, msg_cache, last_seen, mcall>>

(***************************************************************************)
(* Bounds of the model                                                     *)
(***************************************************************************)
MaxClockSteps == 4           \* the calculator's clock runs for this many quarters of an hour
MaxCacheSteps == 3           \* the same, in the runs that recalculate the cache
MaxRecalcs == 1              \* calls of _recalculate_and_cache_aggregations in a run
MaxDispatchTicks == 3        \* the dispatcher's clock runs for this many 100-second slots
MaxMeasurements == 2         \* DeviceMeasurement rows in a run
MaxBreakerTicks == 4         \* the circuit breaker's clock runs for this many 30-second slots
MaxFailures == 6             \* CircuitBreaker.failures counts up to here
MaxGrants == 2               \* can_execute calls answered True between two recorded outcomes
MaxReconnectThreads == 2     \* reconnect threads running at a time
MaxElectricalRows == 2       \* DeviceMeasurement rows with electrical values in a run
MaxManagedThreads == 3       \* threads started through ThreadManager.start_thread in a run

Devices == {"D1"}

\* readings offered to process_new_measurement: the offset (seconds) of the
\* reading's timestamp against the clock (on time, 5 or 10 minutes behind,
\* 5 minutes in the future) and the cumulative counter (kWh)
Readings ==
    IF comp = "cache"
    THEN {[off |-> 0, v |-> 0], [off |-> 0, v |-> 100]}
    ELSE {[off |-> 0, v |-> 0], [off |-> 0, v |-> 100], [off |-> 0, v |-> 105],
          [off |-> -300, v |-> 0], [off |-> -600, v |-> 0],
          [off |-> 300, v |-> 100]}

Calculators == {"calculator", "cache"}

(***************************************************************************)
(* Calendar arithmetic of datetime: fields of a timestamp, replace(),      *)
(* strftime()                                                              *)
(***************************************************************************)
IsLeap(y) == (y % 4 = 0 /\ y % 100 # 0) \/ y % 400 = 0

DaysInYear(y) == IF IsLeap(y) THEN 366 ELSE 365

DaysInMonth(y, m) ==
    IF m = 2 THEN (IF IsLeap(y) THEN 29 ELSE 28)
    ELSE IF m \in {4, 6, 9, 11} THEN 30 ELSE 31

RECURSIVE DaysBeforeYear(_)
DaysBeforeYear(y) ==
    IF y = 2024 THEN 0
    ELSE IF y > 2024 THEN DaysBeforeYear(y - 1) + DaysInYear(y - 1)
    ELSE DaysBeforeYear(y + 1) - DaysInYear(y)

\* days of the year before the first of the month (datetime's _days_before_month)
DaysBeforeMonth(y, m) ==
    <<0, 31, 59, 90, 120, 151, 181, 212, 243, 273, 304, 334>>[m]
        + (IF m > 2 /\ IsLeap(y) THEN 1 ELSE 0)

\* datetime(year, month, day, hour, minute, second)
MkTime(y, mo, d, h, mi, s) ==
    ((DaysBeforeYear(y) + DaysBeforeMonth(y, mo) + (d - 1)) * 86400)
        + h * 3600 + mi * 60 + s

FloorDiv(a, b) == IF a >= 0 THEN a \div b ELSE -(((-a) + b - 1) \div b)

RECURSIVE YearOfDay(_, _)
YearOfDay(days, y) ==
    IF days < 0 THEN YearOfDay(days + DaysInYear(y - 1), y - 1)
    ELSE IF days >= DaysInYear(y) THEN YearOfDay(days - DaysInYear(y), y + 1)
    ELSE y

\* the month that holds day yday (0-based) of year y, searched downwards from m
RECURSIVE MonthOfDay(_, _, _)
MonthOfDay(yday, y, m) ==
    IF yday < DaysBeforeMonth(y, m) THEN MonthOfDay(yday, y, m - 1) ELSE m

\* the fields of a datetime
Fields(t) ==
    LET days == FloorDiv(t, 86400)
        secs == t - days * 86400
        y    == YearOfDay(days, 2024)
        yday == days - DaysBeforeYear(y)
        mo   == MonthOfDay(yday, y, 12)
    IN  [year |-> y, month |-> mo, day |-> yday - DaysBeforeMonth(y, mo) + 1,
         hour |-> secs \div 3600, minute |-> (secs % 3600) \div 60,
         second |-> secs % 60]

FromFields(f) == MkTime(f.year, f.month, f.day, f.hour, f.minute, f.second)


(***************************************************************************)
(* EnergyCalculatorBase: constants and validation helpers                  *)
(***************************************************************************)
INTERVAL_MINUTES == 15
MAX_INTERVAL_SECONDS == 1200
MAX_ENERGY_PER_INTERVAL == 100
HOURS_IN_DAY == 24
INTERVALS_PER_HOUR == 60 \div INTERVAL_MINUTES

INTERVAL_TYPES == {"15MIN", "1H", "1D", "1M", "1Y"}

\* EnergyCalculatorCache.CACHE_TIMEOUTS (settings defaults), seconds
CACHE_TIMEOUTS ==
    [t \in INTERVAL_TYPES |->
        CASE t = "15MIN" -> 3600
          [] t = "1H"    -> 7200
          [] t = "1D"    -> 86400
          [] t = "1M"    -> 604800
          [] t = "1Y"    -> 2592000]

\* self.cache_timeout, the lifetime of the last-reading entry
cache_timeout == 3600

\* self._cache_prefixes
cache_prefixes ==
    [t \in INTERVAL_TYPES |->
        CASE t = "15MIN" -> "energy_15min_"
          [] t = "1H"    -> "energy_hour_"
          [] t = "1D"    -> "energy_day_"
          [] t = "1M"    -> "energy_month_"
          [] t = "1Y"    -> "energy_year_"]

validate_interval_type(interval_type) == interval_type \in INTERVAL_TYPES

\* min_date <= timestamp <= now, min_date two years (of 365 days) back
validate_timestamp(timestamp, t_now) ==
    LET min_date == t_now - (365 * 2) * 86400
    IN  min_date <= timestamp /\ timestamp <= t_now

\* the range test without its upper bound
validate_energy_value_no_maximum(energy) == 0 <= energy

validate_energy_value(energy) == 0 <= energy /\ energy <= MAX_ENERGY_PER_INTERVAL

\* dt.replace(minute=(minute // 15) * 15, second=0, microsecond=0)
round_to_interval(dt) ==
    LET f == Fields(dt)
        rounded_minutes == (f.minute \div INTERVAL_MINUTES) * INTERVAL_MINUTES
    IN  FromFields([f EXCEPT !.minute = rounded_minutes, !.second = 0])

\* replace(minute=0, second=0, microsecond=0)
HourStart(t) == FromFields([Fields(t) EXCEPT !.minute = 0, !.second = 0])

\* replace(hour=0, minute=0, second=0, microsecond=0)
DayStart(t) == FromFields([Fields(t) EXCEPT !.hour = 0, !.minute = 0, !.second = 0])

\* replace(day=1, hour=0, minute=0, second=0, microsecond=0)
MonthStart(t) ==
    FromFields([Fields(t) EXCEPT !.day = 1, !.hour = 0, !.minute = 0, !.second = 0])

\* replace(month=1, day=1, hour=0, minute=0, second=0, microsecond=0)
YearStart(t) ==
    FromFields([Fields(t) EXCEPT !.month = 1, !.day = 1, !.hour = 0,
                                 !.minute = 0, !.second = 0])

(***************************************************************************)
(* The Django cache: get / set with a timeout / delete.  Entries whose     *)
(* lifetime has run out are dropped when the clock advances (Tick).        *)
(***************************************************************************)
CacheHas(c, k) == k \in DOMAIN c

CacheSet(c, k, v, timeout, t_now) ==
    [x \in DOMAIN c \cup {k} |->
        IF x = k THEN [value |-> v, exp |-> t_now + timeout] ELSE c[x]]

CacheDelete(c, k) == [x \in DOMAIN c \ {k} |-> c[x]]

Expire(c, t_now) == [x \in {k \in DOMAIN c : c[k].exp > t_now} |-> c[x]]

(***************************************************************************)
(* EnergyCalculatorCache._get_cache_key and _invalidate_higher_caches      *)
(***************************************************************************)
\* prefix + device_id + "_" + timestamp.strftime(...): %Y%m for a month,
\* %Y for a year, %Y%m%d%H%M otherwise
get_cache_key(device_id, interval_type, timestamp) ==
    LET f == Fields(timestamp)
        date_str ==
            IF interval_type = "1M" THEN <<f.year, f.month>>
            ELSE IF interval_type = "1Y" THEN <<f.year>>
            ELSE <<f.year, f.month, f.day, f.hour, f.minute>>
    IN  <<cache_prefixes[interval_type], device_id, date_str>>

HigherTypes == <<"1H", "1D", "1M", "1Y">>

RECURSIVE DeleteKeys(_, _)
DeleteKeys(c, ks) ==
    IF ks = {} THEN c
    ELSE LET k == CHOOSE x \in ks : TRUE IN DeleteKeys(CacheDelete(c, k), ks \ {k})

\* for interval_type in ['1H', '1D', '1M', '1Y']: cache.delete(key(type, timestamp))
invalidate_higher_caches(c, device_id, timestamp) ==
    DeleteKeys(c, {get_cache_key(device_id, HigherTypes[i], timestamp) : i \in 1..4})

(***************************************************************************)
(* EnergyCalculatorMeasurements._save_interval_energy                      *)
(***************************************************************************)
\* EnergyInterval.objects.get_or_create(device_id, start_time, interval_type,
\* defaults={end_time, energy_value}); an existing row only gets its
\* energy_value replaced
save_interval_energy(store, device_id, start_time, end_time, energy, interval_type, t_now) ==
    IF ~(/\ validate_timestamp(start_time, t_now)
         /\ validate_timestamp(end_time, t_now)
         /\ validate_interval_type(interval_type)
         /\ validate_energy_value(energy))
    THEN [saved |-> FALSE, store |-> store]
    ELSE
        LET found == {r \in store : /\ r.device = device_id
                                    /\ r.start_time = start_time
                                    /\ r.interval_type = interval_type}
        IN  IF found = {}
            THEN [saved |-> TRUE,
                  store |-> store \cup {[device |-> device_id,
                                         start_time |-> start_time,
                                         interval_type |-> interval_type,
                                         end_time |-> end_time,
                                         energy_value |-> energy]}]
            ELSE [saved |-> TRUE,
                  store |-> (store \ found)
                            \cup {[r EXCEPT !.energy_value = energy] : r \in found}]


(***************************************************************************)
(* EnergyCalculatorAggregations: calculate_*_energy.  Each returns the     *)
(* value, the cache afterwards, whether the cache answered, and the number *)
(* of child rows it found.                                                 *)
(***************************************************************************)
RECURSIVE SumEnergy(_)
SumEnergy(rows) ==
    IF rows = {} THEN 0
    ELSE LET r == CHOOSE x \in rows : TRUE
         IN  r.energy_value + SumEnergy(rows \ {r})

\* EnergyInterval.objects.filter(device_id, start_time__gte, end_time__lt, interval_type)
FilterRows(store, device_id, start, end, interval_type) ==
    {r \in store : /\ r.device = device_id
                   /\ r.start_time >= start
                   /\ r.end_time < end
                   /\ r.interval_type = interval_type}

\* the body shared by the four calculate_*_energy methods: answer from the
\* cache on a hit; otherwise sum the child rows, and cache the sum only when
\* the expected number of children is there
Aggregate(c, store, device_id, interval_type, child_type, start, end, expected, t_now) ==
    LET cache_key == get_cache_key(device_id, interval_type, start)
        rows      == FilterRows(store, device_id, start, end, child_type)
        total     == SumEnergy(rows)
        count     == Cardinality(rows)
    IN  IF CacheHas(c, cache_key)
        THEN [ret |-> c[cache_key].value, cache |-> c, hit |-> TRUE,
              count |-> 0, key |-> cache_key]
        ELSE [ret |-> total,
              cache |-> IF count < expected THEN c
                        ELSE CacheSet(c, cache_key, total, CACHE_TIMEOUTS[interval_type], t_now),
              hit |-> FALSE, count |-> count, key |-> cache_key]

calculate_hourly_energy(c, store, device_id, hour_start_arg, t_now) ==
    LET hour_start == HourStart(hour_start_arg)
        hour_end   == hour_start + 3600
    IN  Aggregate(c, store, device_id, "1H", "15MIN", hour_start, hour_end,
                  INTERVALS_PER_HOUR, t_now)

calculate_daily_energy(c, store, device_id, date, t_now) ==
    LET day_start == DayStart(date)
        day_end   == day_start + 86400
    IN  Aggregate(c, store, device_id, "1D", "1H", day_start, day_end,
                  HOURS_IN_DAY, t_now)

calculate_monthly_energy(c, store, device_id, year, month, t_now) ==
    LET month_start == MkTime(year, month, 1, 0, 0, 0)
        month_end   == IF month = 12 THEN MkTime(year + 1, 1, 1, 0, 0, 0)
                       ELSE MkTime(year, month + 1, 1, 0, 0, 0)
        days_in_month == (month_end - month_start) \div 86400
    IN  Aggregate(c, store, device_id, "1M", "1D", month_start, month_end,
                  days_in_month, t_now)

calculate_yearly_energy(c, store, device_id, year, t_now) ==
    LET year_start == MkTime(year, 1, 1, 0, 0, 0)
        year_end   == MkTime(year + 1, 1, 1, 0, 0, 0)
    IN  Aggregate(c, store, device_id, "1Y", "1M", year_start, year_end, 12, t_now)

(***************************************************************************)
(* State machine                                                           *)
(***************************************************************************)
StartTime == MkTime(2024, 12, 31, 23, 0, 0)

\* the latest process_new_measurement call: the reading handed to it and the
\* call's locals (whether the input validation passed, whether last_measurement
\* was there, time_diff, interval_energy, saved)
CallRec(op, d, ts, v, valid, had_last, time_diff, interval_energy, saved) ==
    [op |-> op, device |-> d, timestamp |-> ts, total_energy |-> v,
     valid |-> valid, had_last |-> had_last, time_diff |-> time_diff,
     interval_energy |-> interval_energy, saved |-> saved]

NoCall == CallRec("none", "", 0, 0, FALSE, FALSE, 0, 0, FALSE)

\* the latest process_message call: its arguments, the time it ran at, the way
\* it went, its return value and the rows it created; and whether the call
\* before it carried the same topic and payload less than the duplicate
\* timeout earlier, with the way that call went, what it returned and created
NoMCall == [op |-> "none", topic |-> [base |-> "", channel |-> ""],
            payload |-> [kind |-> "", total_act |-> 0], at |-> 0, way |-> "",
            ret |-> FALSE, created |-> 0, repeat |-> FALSE, first_way |-> "",
            first_ret |-> FALSE, first_created |-> 0]

Workers == {1, 2}

\* clock advances: a quarter of an hour between the calculator's readings;
\* the dispatcher's deliveries come 100 or 300 seconds apart
TickSteps ==
    IF comp \in Calculators \cup {"store", "calculator_faults", "concurrent"} THEN {900}
    ELSE IF comp \in {"breaker", "service"} THEN {30}
    ELSE {100, 300}

Horizon ==
    IF comp \in {"calculator", "store", "calculator_faults", "concurrent"} THEN MaxClockSteps * 900
    ELSE IF comp \in {"breaker", "service"} THEN MaxBreakerTicks * 30
    ELSE IF comp = "cache" THEN MaxCacheSteps * 900
    ELSE MaxDispatchTicks * 100

\* CircuitBreaker.__init__(failure_threshold=3, reset_timeout=60);
\* last_failure_time None is written -1
failure_threshold == 3
reset_timeout == 60
NewBreaker == [failures |-> 0, last_failure_time |-> -1, state |-> "CLOSED"]

\* the latest CircuitBreaker call, what it returned, and the number of
\* can_execute calls answered True since the last recorded outcome
NoBCall == [op |-> "none", ret |-> FALSE, grants |-> 0]

\* EnergyMQTTClient.__init__: no paho client yet, not connected, the first
\* retry delay, no topics; the queue worker thread is started.  session is
\* the state of the paho client ("none", "connecting": CONNECT sent, or
\* "connected": CONNACK 0 received), loop its network thread.  stopped tells
\* that stop() or cleanup() has been called, awaiting that the disconnect
\* callback has run and no connect callback with rc = 0 since.
retry_delay == 1
max_retry_delay == 60
NewClient ==
    [has_client |-> FALSE, initialized |-> FALSE, is_connected |-> FALSE,
     retry_delay |-> retry_delay, subscribed_topics |-> {},
     session |-> "none", loop |-> FALSE, starting |-> FALSE,
     processing_thread |-> TRUE, stopped |-> FALSE, awaiting |-> FALSE]

\* the call of the client that has just returned, when it is stop() or
\* cleanup(); "none" after every other step
NoCCall == "none"

\* the broker: whether it can be reached, the topics subscribed there and the
\* status messages it has received on CerCollettiva/status, the latest last
NewBroker == [up |-> TRUE, subs |-> {}, status |-> <<>>]

\* MQTTService.__init__: no paho client, not connected, no subscribed topic,
\* the two default handlers registered (register_handler subscribes nothing
\* while not connected).  lock is self._lock: "free", or "on_connect" while
\* the connect callback holds it.
max_retries == 3
DefaultPatterns == {"cercollettiva/+/+/status/em:0", "cercollettiva/+/+/status/emdata:0"}
NewService ==
    [has_client |-> FALSE, connected |-> FALSE, subscribed_topics |-> {},
     message_handlers |-> DefaultPatterns, retry_count |-> 0, lock |-> "free",
     session |-> "none", loop |-> FALSE]

\* the latest MQTTService call: whether it raised, the connection attempts
\* it made, whether it has returned
NoSvCall == [op |-> "none", raised |-> FALSE, attempts |-> 0, returned |-> TRUE]

\* the latest direct call of _save_interval_energy
NoSaveCall == [op |-> "none", device |-> "", start_time |-> 0, end_time |-> 0,
               energy |-> 0, interval_type |-> "", saved |-> FALSE]

\* EnergyMQTTClient.__init__: Queue(maxsize=10000), the queue worker thread
\* started (worker "running"; "waiting" while blocked in Queue.get()), and
\* _last_refresh_time of _process_message (topic -> seconds).  cb is the
\* latest run of the message callback: whether it decoded the payload
\* itself, whether it called the dispatcher itself, whether it put the
\* message on the queue.
message_queue_maxsize == 10000
NoCallback == [op |-> "none", topic |-> [base |-> "", channel |-> ""],
               payload |-> [kind |-> "", total_act |-> 0],
               decoded |-> FALSE, dispatched |-> FALSE, queued |-> FALSE]
NewInbound == [queue |-> <<>>, worker |-> "running", last_refresh |-> <<>>,
               cb |-> NoCallback]

\* the database takes writes; no pipeline call has run
NewStorage == [writable |-> TRUE, failed |-> FALSE, reported |-> FALSE]

\* no DeviceMeasurement row with electrical values yet, no parser has run
NewElectrical == [rows |-> {}, parsed |-> {}]

\* device configurations: D1 and D2 are Shelly devices the DeviceRegistry
\* resolves, U1 has a vendor and model the registry does not know
ConfigDevices == {"D1", "D2", "U1"}
Resolvable == {"D1", "D2"}
ShellyVendor == {"D1", "D2"}

\* the table holds D1 and U1 as active rows; EnergyMQTTClient.__init__ has
\* built its DeviceManager, whose _load_configurations kept the devices the
\* registry resolves; the client is not connected and has subscribed nothing.
\* persisted are the devices a DeviceMeasurement row was written for, op the
\* latest operation.
NewDevCfg ==
    [table |-> [d \in ConfigDevices |-> IF d = "D2" THEN "absent" ELSE "active"],
     configs_loaded |-> TRUE, configs |-> {"D1"},
     is_connected |-> FALSE, subscribed_topics |-> {}, persisted |-> {},
     op |-> "none"]

\* a thread that runs process_new_measurement: where it is ("idle", "read":
\* cache.get done, "saved": the interval step done, "done": returned), the
\* reading it was called with and the last_measurement it read (a set, empty
\* for None)
IdleCall == [pc |-> "idle", timestamp |-> 0, total_energy |-> 0, last_measurement |-> {}]

\* no call is running; snap holds the baseline and the rows at the moment the
\* first of the calls now running or returned was started
NewRace == [calls |-> [w \in {1, 2} |-> IdleCall],
            snap |-> [last_reading |-> <<>>, intervals |-> {}]]

\* ThreadManager.__init__: an empty tracking table (name -> thread, 0 for no
\* entry), _running set, the monitor thread started.  Threads are numbered in
\* the order they are created; alive holds the threads that have been
\* started and have not ended, each with its name.  stopper is the
\* stop_thread or stop_all call under way: where it is, the name and thread
\* it looked up, for stop_all the entries still to visit and all_stopped.
ThreadNames == {"a", "b"}
NoStopper == [pc |-> "idle", name |-> "", thread |-> 0, pending |-> <<>>,
              all_stopped |-> TRUE]
NoReturn == [op |-> "none", name |-> "", value |-> FALSE]
NewThreadManager ==
    [threads |-> [n \in ThreadNames |-> 0], alive |-> {}, created |-> 0,
     running |-> TRUE, stopper |-> NoStopper, ret |-> NoReturn]

IdleWorker == [pc |-> "idle", topic |-> [base |-> "", channel |-> ""],
               payload |-> [kind |-> "", total_act |-> 0],
               created |-> 0, advanced |-> 0]

InitVars ==
    /\ now = StartTime
    /\ last_reading = <<>>
    /\ intervals = {}
    /\ cache = <<>>
    /\ call = NoCall
    /\ recalcs = 0
    /\ measurements = <<>>
    /\ last_energy = [d \in Devices |-> {}]
    /\ msg_cache = <<>>
    /\ last_seen = [d \in Devices |-> -1]
    /\ mcall = NoMCall
    /\ workers = [w \in Workers |-> IdleWorker]
    /\ save_call = NoSaveCall
    /\ breaker = NewBreaker
    /\ bcall = NoBCall
    /\ client = NewClient
    /\ threads = <<>>
    /\ ccall = NoCCall
    /\ service = NewService
    /\ svcall = NoSvCall
    /\ broker = NewBroker
    /\ inbound = NewInbound
    /\ storage = NewStorage
    /\ electrical = NewElectrical
    /\ devcfg = NewDevCfg
    /\ race = NewRace
    /\ tm = NewThreadManager

Init == comp \in {"calculator", "cache", "manager"} /\ InitVars

\* the clock advances; cache entries whose timeout has passed are gone
Tick(step) ==
    /\ now + step <= StartTime + Horizon
    /\ now' = now + step
    /\ last_reading' = Expire(last_reading, now + step)
    /\ cache' = Expire(cache, now + step)
    /\ msg_cache' = Expire(msg_cache, now + step)
    /\ call' = NoCall
    /\ UNCHANGED <<extVars, storeVars, connVars, comp, intervals, recalcs, measurements, last_energy, last_seen,
                   mcall, workers>>

\* the interval's end taken MAX_INTERVAL_SECONDS after its start
IntervalEndAfterMaxGap(interval_start) == interval_start + MAX_INTERVAL_SECONDS

\* interval_end = interval_start + timedelta(minutes=self.INTERVAL_MINUTES)
IntervalEnd(interval_start) == interval_start + INTERVAL_MINUTES * 60

\* the entry written only when the device has none yet (cache.add for cache.set)
store_last_measurement_if_absent(lr, device_id, timestamp, total_energy, t_now) ==
    IF device_id \in DOMAIN lr THEN lr
    ELSE CacheSet(lr, device_id, [timestamp |-> timestamp, total_energy |-> total_energy],
                  cache_timeout, t_now)

\* cache.set("last_energy_measurement_<device>", {timestamp, total_energy}, self.cache_timeout)
store_last_measurement(lr, device_id, timestamp, total_energy, t_now) ==
    CacheSet(lr, device_id, [timestamp |-> timestamp, total_energy |-> total_energy],
             cache_timeout, t_now)

\* EnergyCalculatorMeasurements.process_new_measurement(device_id, timestamp, total_energy)
ProcessNewMeasurement(device_id, timestamp, total_energy) ==
    LET valid == validate_timestamp(timestamp, now) /\ validate_energy_value(total_energy)
        had_last == device_id \in DOMAIN last_reading
        lm == last_reading[device_id].value
        time_diff == timestamp - lm.timestamp
        interval_energy == total_energy - lm.total_energy
        accepted == /\ had_last
                    /\ time_diff <= MAX_INTERVAL_SECONDS
                    /\ 0 <= interval_energy
                    /\ interval_energy <= MAX_ENERGY_PER_INTERVAL
        interval_start == round_to_interval(lm.timestamp)
        interval_end == IntervalEnd(interval_start)
        sv == save_interval_energy(intervals, device_id, interval_start, interval_end,
                                   interval_energy, "15MIN", now)
    IN  /\ comp \in Calculators
        /\ IF ~valid
           THEN /\ call' = CallRec("process_new_measurement", device_id, timestamp,
                                   total_energy, FALSE, FALSE, 0, 0, FALSE)
                /\ UNCHANGED <<last_reading, intervals, cache>>
           ELSE /\ call' = CallRec("process_new_measurement", device_id, timestamp,
                                   total_energy, TRUE, had_last,
                                   IF had_last THEN time_diff ELSE 0,
                                   IF had_last THEN interval_energy ELSE 0,
                                   accepted /\ sv.saved)
                /\ IF accepted
                   THEN /\ intervals' = sv.store
                        /\ cache' = IF sv.saved
                                    THEN invalidate_higher_caches(cache, device_id, interval_start)
                                    ELSE cache
                   ELSE UNCHANGED <<intervals, cache>>
                /\ last_reading' = store_last_measurement(last_reading, device_id, timestamp,
                                                          total_energy, now)
        /\ UNCHANGED <<extVars, storeVars, connVars, comp, now, recalcs, mgrVars, workers>>

\* the timestamp a caller asks about: the quarter of an hour that has just ended
QueryTimes == {now - 900}

\* a query changes nothing but the cache (and the cache only when it stores
\* the sum of a complete bucket)
Query(r) ==
    /\ comp \in Calculators
    /\ cache' = r.cache
    /\ call' = NoCall
    /\ UNCHANGED <<extVars, storeVars, connVars, comp, now, last_reading, intervals, recalcs, mgrVars, workers>>

CalculateHourly(device_id, t) ==
    Query(calculate_hourly_energy(cache, intervals, device_id, t, now))

CalculateDaily(device_id, t) ==
    Query(calculate_daily_energy(cache, intervals, device_id, t, now))

CalculateMonthly(device_id, t) ==
    Query(calculate_monthly_energy(cache, intervals, device_id,
                                   Fields(t).year, Fields(t).month, now))

CalculateYearly(device_id, t) ==
    Query(calculate_yearly_energy(cache, intervals, device_id, Fields(t).year, now))

\* EnergyCalculatorCache.get_cached_energy_interval: the cached value or None
get_cached_energy_interval(c, device_id, start_time, interval_type) ==
    LET cache_key == get_cache_key(device_id, interval_type, start_time)
    IN  IF CacheHas(c, cache_key)
        THEN [ret |-> c[cache_key].value, cache |-> c, hit |-> TRUE,
              count |-> 0, key |-> cache_key]
        ELSE [ret |-> 0, cache |-> c, hit |-> FALSE, count |-> 0, key |-> cache_key]

GetCachedEnergyInterval(device_id, start_time, interval_type) ==
    Query(get_cached_energy_interval(cache, device_id, start_time, interval_type))

\* EnergyCalculatorCache.set_cached_energy_interval
set_cached_energy_interval(c, device_id, start_time, interval_type, energy, t_now) ==
    CacheSet(c, get_cache_key(device_id, interval_type, start_time), energy,
             CACHE_TIMEOUTS[interval_type], t_now)

\* set_cached_energy_interval(device_id, start, ..., interval_type, <result of calculate_*>)
CacheResult(r, device_id, start_time, interval_type, t_now) ==
    set_cached_energy_interval(r.cache, device_id, start_time, interval_type, r.ret, t_now)

RecalcHour(c, store, device_id, hour_start, t_now) ==
    CacheResult(calculate_hourly_energy(c, store, device_id, hour_start, t_now),
                device_id, hour_start, "1H", t_now)

RecalcDay(c, store, device_id, day_start, t_now) ==
    CacheResult(calculate_daily_energy(c, store, device_id, day_start, t_now),
                device_id, day_start, "1D", t_now)

RecalcMonth(c, store, device_id, month_start, t_now) ==
    CacheResult(calculate_monthly_energy(c, store, device_id, Fields(month_start).year,
                                         Fields(month_start).month, t_now),
                device_id, month_start, "1M", t_now)

RecalcYear(c, store, device_id, year_start, t_now) ==
    CacheResult(calculate_yearly_energy(c, store, device_id, Fields(year_start).year, t_now),
                device_id, year_start, "1Y", t_now)

\* EnergyCalculatorCache._recalculate_and_cache_aggregations: recompute the
\* buckets above interval_type and store each result in the cache
recalculate_and_cache_aggregations(c, store, device_id, start_time, interval_type, t_now) ==
    IF interval_type = "15MIN"
    THEN RecalcYear(
           RecalcMonth(
             RecalcDay(
               RecalcHour(c, store, device_id, HourStart(start_time), t_now),
               store, device_id, DayStart(start_time), t_now),
             store, device_id, MonthStart(start_time), t_now),
           store, device_id, YearStart(start_time), t_now)
    ELSE IF interval_type = "1H"
    THEN RecalcYear(
           RecalcMonth(
             RecalcDay(c, store, device_id, DayStart(start_time), t_now),
             store, device_id, MonthStart(start_time), t_now),
           store, device_id, YearStart(start_time), t_now)
    ELSE IF interval_type = "1D"
    THEN RecalcYear(
           RecalcMonth(c, store, device_id, MonthStart(start_time), t_now),
           store, device_id, YearStart(start_time), t_now)
    ELSE c

RecalculateAndCache(device_id, start_time, interval_type) ==
    /\ comp = "cache"
    /\ recalcs < MaxRecalcs
    /\ recalcs' = recalcs + 1
    /\ cache' = recalculate_and_cache_aggregations(cache, intervals, device_id,
                                                   start_time, interval_type, now)
    /\ call' = NoCall
    /\ UNCHANGED <<extVars, storeVars, connVars, comp, now, last_reading, intervals, mgrVars, workers>>


(***************************************************************************)
(* DeviceManager (energy/mqtt/manager.py).  The manager's state is handled *)
(* as one record m = [measurements, last_energy, msg_cache, last_seen] so  *)
(* that the sequential dispatcher and the concurrent workers run the same  *)
(* handler definitions.                                                    *)
(***************************************************************************)
\* topics are "<base>/status/<channel>"; a device's topic template is
\* "<device id>/status/em:0"
Topics == {[base |-> "D1", channel |-> "em:0"],
           [base |-> "D1", channel |-> "emdata:0"],
           [base |-> "X",  channel |-> "em:0"]}

\* payloads: malformed JSON, a JSON object whose total_act is not a number,
\* and JSON objects with a numeric total_act (Wh)
Payloads == {[kind |-> "malformed", total_act |-> 0],
             [kind |-> "nonnumeric", total_act |-> 0],
             [kind |-> "json", total_act |-> 1000],
             [kind |-> "json", total_act |-> 3000]}

DEDUP_TIMEOUT == 300
MAX_ENERGY_DELTA_WH == 100000

MgrState == [measurements |-> measurements, last_energy |-> last_energy,
             msg_cache |-> msg_cache, last_seen |-> last_seen]

\* DeviceManager._find_device_for_topic: the first active device one of whose
\* two topics equals the topic
find_device_for_topic(topic) ==
    {d \in Devices : topic.base = d /\ topic.channel \in {"em:0", "emdata:0"}}

\* _parse_payload without the JSONDecodeError branch: whatever arrives counts
\* as decoded
parse_payload_undecoded(data) == {data}

\* DeviceManager._parse_payload: the decoded object, or None
parse_payload(data) == IF data.kind = "malformed" THEN {} ELSE {data}

\* msg_key = f"{topic}_{device_id}__{hash(str(payload))}"
MsgKey(topic, device_id, payload) == <<topic, device_id, payload>>

\* DeviceManager._handle_power_message.  Its own duplicate check is keyed by
\* the call's current timestamp, which no earlier call has used, so the
\* lookup misses.
handle_power_message(m, device_id, payload, t_now) ==
    IF payload.kind = "nonnumeric"
    THEN [m |-> m, success |-> FALSE, created |-> 0, advanced |-> 0]
    ELSE [m |-> [m EXCEPT
                   !.measurements = Append(@, [device |-> device_id,
                                               timestamp |-> t_now,
                                               measurement_type |-> "POWER",
                                               energy_total |-> payload.total_act]),
                   !.last_seen = [@ EXCEPT ![device_id] = t_now]],
          success |-> TRUE, created |-> 1, advanced |-> 0]

\* DeviceManager._handle_energy_message
handle_energy_message(m, device_id, payload, t_now) ==
    IF payload.kind = "nonnumeric"
    THEN [m |-> m, success |-> FALSE, created |-> 0, advanced |-> 0]
    ELSE
        LET current_energy_total == payload.total_act
            last == m.last_energy[device_id]
            energy_delta == current_energy_total - (CHOOSE x \in last : TRUE)
            ok == /\ last # {}
                  /\ 0 <= energy_delta
                  /\ energy_delta <= MAX_ENERGY_DELTA_WH
            rows == IF ok
                    THEN Append(m.measurements, [device |-> device_id,
                                                 timestamp |-> t_now,
                                                 measurement_type |-> "ENERGY",
                                                 energy_total |-> energy_delta \div 1000])
                    ELSE m.measurements
        IN  [m |-> [m EXCEPT
                      !.measurements = rows,
                      !.last_energy = [@ EXCEPT ![device_id] = {current_energy_total}],
                      !.last_seen = [@ EXCEPT ![device_id] = t_now]],
             success |-> TRUE, created |-> IF ok THEN 1 ELSE 0, advanced |-> 1]

\* process_message up to the duplicate check: which way the call goes
pm_lookup(m, topic, data) ==
    LET found == find_device_for_topic(topic)
        device_id == CHOOSE d \in found : TRUE
        payload == parse_payload(data)
    IN  IF found = {} THEN "no_device"
        ELSE IF payload = {} THEN "bad_payload"
        ELSE IF CacheHas(m.msg_cache, MsgKey(topic, device_id, data)) THEN "duplicate"
        ELSE "process"

\* process_message: the handler chosen by the topic
pm_handle(m, topic, data, t_now) ==
    LET device_id == CHOOSE d \in find_device_for_topic(topic) : TRUE
    IN  IF topic.channel = "em:0" THEN handle_power_message(m, device_id, data, t_now)
        ELSE IF topic.channel = "emdata:0" THEN handle_energy_message(m, device_id, data, t_now)
        ELSE [m |-> m, success |-> FALSE, created |-> 0, advanced |-> 0]

\* pm_mark without the duplicate mark: only last_seen is written
pm_mark_last_seen_only(m, topic, data, t_now) ==
    LET device_id == CHOOSE d \in find_device_for_topic(topic) : TRUE
    IN  [m EXCEPT !.last_seen = [@ EXCEPT ![device_id] = t_now]]

\* process_message after a successful handler: mark the message as processed
\* and write last_seen
pm_mark(m, topic, data, t_now) ==
    LET device_id == CHOOSE d \in find_device_for_topic(topic) : TRUE
    IN  [m EXCEPT
           !.msg_cache = CacheSet(@, MsgKey(topic, device_id, data), TRUE, DEDUP_TIMEOUT, t_now),
           !.last_seen = [@ EXCEPT ![device_id] = t_now]]

\* DeviceManager.process_message(topic, data), run without interruption
process_message(m, topic, data, t_now) ==
    LET way == pm_lookup(m, topic, data)
        h == pm_handle(m, topic, data, t_now)
    IN  IF way \in {"no_device", "bad_payload"}
        THEN [m |-> m, way |-> way, ret |-> FALSE, created |-> 0]
        ELSE IF way = "duplicate"
        THEN [m |-> m, way |-> way, ret |-> TRUE, created |-> 0]
        ELSE IF h.success
             THEN [m |-> pm_mark(h.m, topic, data, t_now), way |-> way, ret |-> TRUE,
                   created |-> h.created]
             ELSE [m |-> h.m, way |-> way, ret |-> FALSE, created |-> h.created]

SetMgr(m) ==
    /\ measurements' = m.measurements
    /\ last_energy' = m.last_energy
    /\ msg_cache' = m.msg_cache
    /\ last_seen' = m.last_seen

\* one delivery handled by the dispatcher from start to end
ProcessMessage(topic, data) ==
    LET r == process_message(MgrState, topic, data, now)
    IN  /\ comp = "manager"
        /\ Len(measurements) < MaxMeasurements
        /\ SetMgr(r.m)
        /\ mcall' = LET repeat == /\ mcall.op = "process_message"
                                   /\ mcall.topic = topic
                                   /\ mcall.payload = data
                                   /\ now - mcall.at < DEDUP_TIMEOUT
                     IN  [op |-> "process_message", topic |-> topic, payload |-> data,
                          at |-> now, way |-> r.way, ret |-> r.ret, created |-> r.created,
                          repeat |-> repeat,
                          first_way |-> IF repeat THEN mcall.way ELSE "",
                          first_ret |-> IF repeat THEN mcall.ret ELSE FALSE,
                          first_created |-> IF repeat THEN mcall.created ELSE 0]
        /\ UNCHANGED <<extVars, storeVars, connVars, comp, now, calcVars, workers>>


(***************************************************************************)
(* Concurrent deliveries: each worker runs process_message in three steps, *)
(* the duplicate lookup, the handler, the duplicate mark.                  *)
(***************************************************************************)
\* the call starts: device lookup, payload decoding, duplicate lookup.  A call
\* that ends here (no device, bad payload, duplicate) changes nothing.
Receive(w, topic, data) ==
    /\ comp = "workers"
    /\ workers[w].pc = "idle"
    /\ Len(measurements) < MaxMeasurements
    /\ workers' = [workers EXCEPT ![w] =
                      IF pm_lookup(MgrState, topic, data) = "process"
                      THEN [pc |-> "handle", topic |-> topic, payload |-> data,
                            created |-> 0, advanced |-> 0]
                      ELSE IdleWorker]
    /\ UNCHANGED <<extVars, storeVars, connVars, comp, now, calcVars, mgrVars>>

\* the handler chosen by the topic runs
Handle(w) ==
    LET h == pm_handle(MgrState, workers[w].topic, workers[w].payload, now)
    IN  /\ comp = "workers"
        /\ workers[w].pc = "handle"
        /\ SetMgr(h.m)
        /\ workers' = [workers EXCEPT ![w] =
                          IF h.success
                          THEN [@ EXCEPT !.pc = "mark", !.created = h.created,
                                         !.advanced = h.advanced]
                          ELSE IdleWorker]
        /\ UNCHANGED <<extVars, storeVars, connVars, comp, now, calcVars, mcall>>

\* the message is marked as processed and the call returns
Mark(w) ==
    /\ comp = "workers"
    /\ workers[w].pc = "mark"
    /\ SetMgr(pm_mark(MgrState, workers[w].topic, workers[w].payload, now))
    /\ workers' = [workers EXCEPT ![w] = IdleWorker]
    /\ UNCHANGED <<extVars, storeVars, connVars, comp, now, calcVars, mcall>>

(***************************************************************************)
(* _save_interval_energy called directly, for any interval type, on the    *)
(* EnergyInterval model as energy/models/energy.py declares it.            *)
(* process_new_measurement above runs on the rows as the calculator        *)
(* addresses them (device, start_time, interval_type); the declared model  *)
(* has no interval_type field and is unique on (device, start_time).       *)
(***************************************************************************)
\* the names a lookup on EnergyInterval can use: the declared fields, the
\* foreign key's column device_id and the primary key
EnergyIntervalLookups ==
    {"id", "pk", "device", "device_id", "start_time", "end_time", "energy_value",
     "created_at"}

\* the keyword arguments of get_or_create that select the row
GetOrCreateLookups == {"device_id", "start_time", "interval_type"}

\* _save_interval_energy on a model with the given lookup names: a keyword
\* that is no field makes get_or_create raise FieldError, which the method
\* catches and answers with False
save_interval_energy_on(lookups, store, device_id, start_time, end_time, energy, interval_type, t_now) ==
    IF ~(GetOrCreateLookups \subseteq lookups)
    THEN [saved |-> FALSE, store |-> store]
    ELSE save_interval_energy(store, device_id, start_time, end_time, energy,
                              interval_type, t_now)

SaveTypes == INTERVAL_TYPES \cup {"30MIN"}
SaveStarts == {now - 900, now - 3600}
SaveEnergies == {0, 5, 101}

SaveIntervalEnergy(device_id, start_time, end_time, energy, interval_type) ==
    LET r == save_interval_energy_on(EnergyIntervalLookups, intervals, device_id,
                                     start_time, end_time, energy, interval_type, now)
    IN  /\ comp = "store"
        /\ intervals' = r.store
        /\ save_call' = [op |-> "_save_interval_energy", device |-> device_id,
                         start_time |-> start_time, end_time |-> end_time,
                         energy |-> energy, interval_type |-> interval_type,
                         saved |-> r.saved]
        /\ UNCHANGED <<extVars, connVars, comp, now, last_reading, cache, call, recalcs,
                       mgrVars, workers>>

(***************************************************************************)
(* CircuitBreaker (energy/mqtt/core.py)                                    *)
(***************************************************************************)
\* failures += 1; last_failure_time = now; OPEN once the threshold is reached
record_failure(b, t_now) ==
    [failures |-> b.failures + 1,
     last_failure_time |-> t_now,
     state |-> IF b.failures + 1 >= failure_threshold THEN "OPEN" ELSE b.state]

\* failures = 0; state = CLOSED
record_success(b) == [b EXCEPT !.failures = 0, !.state = "CLOSED"]

\* can_execute: the answer and the breaker afterwards
can_execute(b, t_now) ==
    IF b.state = "CLOSED" THEN [ret |-> TRUE, b |-> b]
    ELSE IF b.state = "OPEN"
         THEN IF t_now - b.last_failure_time > reset_timeout
              THEN [ret |-> TRUE, b |-> [b EXCEPT !.state = "HALF-OPEN"]]
              ELSE [ret |-> FALSE, b |-> b]
    ELSE [ret |-> TRUE, b |-> b]

BreakerFrame ==
    UNCHANGED <<extVars, storeVars, comp, now, calcVars, mgrVars, workers,
                client, threads, ccall, service, svcall, broker>>

RecordFailure ==
    /\ comp = "breaker"
    /\ breaker.failures < MaxFailures
    /\ breaker' = record_failure(breaker, now)
    /\ bcall' = [op |-> "record_failure", ret |-> FALSE, grants |-> 0]
    /\ BreakerFrame

RecordSuccess ==
    /\ comp = "breaker"
    /\ breaker' = record_success(breaker)
    /\ bcall' = [op |-> "record_success", ret |-> FALSE, grants |-> 0]
    /\ BreakerFrame

CanExecute ==
    LET r == can_execute(breaker, now)
    IN  /\ comp = "breaker"
        /\ bcall.grants < MaxGrants
        /\ breaker' = r.b
        /\ bcall' = [op |-> "can_execute", ret |-> r.ret,
                     grants |-> bcall.grants + (IF r.ret THEN 1 ELSE 0)]
        /\ BreakerFrame

(***************************************************************************)
(* EnergyMQTTClient (energy/mqtt/client.py) and its paho client            *)
(***************************************************************************)
\* DeviceManager.get_subscription_topics(): the topics of the active devices
ClientTopics == {"D1/status/em:0", "D1/status/emdata:0"}

\* check_connection / _check_connection_status / is_connected
check_connection(c) == c.has_client /\ c.session = "connected" /\ c.is_connected

\* a reconnect thread: where it stands, whether it has slept already and what
\* started it; a thread that ends leaves the sequence
NewThread(cause) == [pc |-> "check", slept |-> FALSE, cause |-> cause]
EndThread(ts, i) == SubSeq(ts, 1, i - 1) \o SubSeq(ts, i + 1, Len(ts))

ClientFrame ==
    UNCHANGED <<extVars, storeVars, comp, now, calcVars, mgrVars, workers,
                breaker, bcall, service, svcall>>

\* a status message on CerCollettiva/status reaches the broker only over a
\* connected session
Publish(b, session, status) ==
    IF session = "connected" THEN [b EXCEPT !.status = <<status>>] ELSE b

\* threading.Thread(target=reconnect_thread).start()
Spawn(ts, cause) == Append(ts, NewThread(cause))

\* _on_disconnect without clearing the flag
on_disconnect_flag_kept(c) == [c EXCEPT !.session = "none", !.awaiting = TRUE]

\* _on_disconnect: self._is_connected = False (the paho session is gone)
on_disconnect(c) ==
    [c EXCEPT !.is_connected = FALSE, !.session = "none", !.awaiting = TRUE]

\* configure(): _setup_client creates the paho client
Configure ==
    /\ comp = "client"
    /\ ~client.initialized
    /\ ~client.stopped
    /\ client' = [client EXCEPT !.has_client = TRUE, !.initialized = TRUE,
                                 !.session = "none", !.loop = FALSE]
    /\ ccall' = NoCCall
    /\ UNCHANGED <<threads, broker>>
    /\ ClientFrame

\* start(): connect and loop_start, then wait for the connection; a broker
\* that cannot be reached makes connect raise and start the reconnect loop
Start ==
    /\ comp = "client"
    /\ client.initialized
    /\ ~client.starting
    /\ ~client.stopped
    /\ IF broker.up
       THEN /\ client' = [client EXCEPT !.session = "connecting", !.loop = TRUE,
                                        !.starting = TRUE]
            /\ UNCHANGED threads
       ELSE /\ Len(threads) < MaxReconnectThreads
            /\ threads' = Spawn(threads, "start")
            /\ UNCHANGED client
    /\ ccall' = NoCCall
    /\ UNCHANGED broker
    /\ ClientFrame

\* start(): the wait ends, connected in time or with TimeoutError and the
\* reconnect loop
StartWaitEnds ==
    /\ comp = "client"
    /\ client.starting
    /\ client' = [client EXCEPT !.starting = FALSE]
    /\ IF check_connection(client)
       THEN UNCHANGED threads
       ELSE /\ Len(threads) < MaxReconnectThreads
            /\ threads' = Spawn(threads, "start")
    /\ ccall' = NoCCall
    /\ UNCHANGED broker
    /\ ClientFrame

\* _on_connect(rc), called by the network thread when the CONNACK arrives
OnConnect(rc) ==
    /\ comp = "client"
    /\ client.session = "connecting"
    /\ client.loop
    /\ broker.up
    /\ IF rc = 0
       THEN /\ client' = [client EXCEPT !.session = "connected", !.is_connected = TRUE,
                                        !.subscribed_topics = ClientTopics,
                                        !.awaiting = FALSE]
            /\ broker' = Publish([broker EXCEPT !.subs = ClientTopics], "connected", "online")
       ELSE /\ client' = [client EXCEPT !.session = "none", !.is_connected = FALSE]
            /\ UNCHANGED broker
    /\ ccall' = NoCCall
    /\ UNCHANGED threads
    /\ ClientFrame

\* the connection is lost: _on_disconnect(rc # 0) clears the flag and starts
\* the reconnect loop; the broker publishes the last will
ConnectionLost ==
    /\ comp = "client"
    /\ client.session \in {"connecting", "connected"}
    /\ client.loop
    /\ Len(threads) < MaxReconnectThreads
    /\ client' = on_disconnect(client)
    /\ threads' = Spawn(threads, "drop")
    /\ broker' = IF client.session = "connected"
                 THEN [broker EXCEPT !.status = <<"offline">>] ELSE broker
    /\ ccall' = NoCCall
    /\ ClientFrame

\* reconnect_thread: while not self.check_connection()
ThreadCheck(i) ==
    /\ comp = "client"
    /\ threads[i].pc = "check"
    /\ threads' = IF check_connection(client) THEN EndThread(threads, i)
                  ELSE [threads EXCEPT ![i].pc = "sleep"]
    /\ ccall' = NoCCall
    /\ UNCHANGED <<client, broker>>
    /\ ClientFrame

\* reconnect_thread: time.sleep(self._retry_delay)
ThreadSleep(i) ==
    /\ comp = "client"
    /\ threads[i].pc = "sleep"
    /\ threads' = [threads EXCEPT ![i].pc = "attempt", ![i].slept = TRUE]
    /\ ccall' = NoCCall
    /\ UNCHANGED <<client, broker>>
    /\ ClientFrame

\* reconnect_thread: self._client.reconnect(); 0 ends the loop, an exception
\* doubles the delay up to the maximum
ThreadAttempt(i) ==
    /\ comp = "client"
    /\ threads[i].pc = "attempt"
    /\ IF broker.up
       THEN /\ client' = [client EXCEPT !.session = "connecting"]
            /\ threads' = EndThread(threads, i)
       ELSE /\ client' = [client EXCEPT !.retry_delay =
                              IF 2 * @ < max_retry_delay THEN 2 * @ ELSE max_retry_delay]
            /\ threads' = [threads EXCEPT ![i].pc = "check"]
    /\ ccall' = NoCCall
    /\ UNCHANGED broker
    /\ ClientFrame

\* stop(): publish "offline", loop_stop(), disconnect(); disconnect() on a
\* live session calls _on_disconnect(0)
Stop ==
    /\ comp = "client"
    /\ client.has_client
    /\ broker' = Publish(broker, client.session, "offline")
    /\ client' = [(IF client.session = "none" THEN client ELSE on_disconnect(client))
                     EXCEPT !.loop = FALSE, !.starting = FALSE, !.stopped = TRUE]
    /\ ccall' = "stop"
    /\ UNCHANGED threads
    /\ ClientFrame

\* cleanup(): publish offline, loop_stop(), disconnect(), join the queue
\* worker for at most a second, then clear _initialized and _is_connected
Cleanup ==
    /\ comp = "client"
    /\ broker' = IF client.has_client
                 THEN Publish(broker, client.session, "offline") ELSE broker
    /\ client' = [(IF client.has_client /\ client.session # "none"
                   THEN on_disconnect(client) ELSE client)
                     EXCEPT !.loop = FALSE, !.starting = FALSE, !.stopped = TRUE,
                            !.initialized = FALSE, !.is_connected = FALSE]
    /\ ccall' = "cleanup"
    /\ UNCHANGED threads
    /\ ClientFrame

\* the broker goes away or comes back
SetBroker(up) ==
    /\ comp = "client"
    /\ broker.up # up
    /\ broker' = [broker EXCEPT !.up = up]
    /\ ccall' = NoCCall
    /\ UNCHANGED <<client, threads>>
    /\ ClientFrame

(***************************************************************************)
(* MQTTService (energy/mqtt/core.py) and its paho client.  The service's   *)
(* circuit breaker is the variable breaker.                                *)
(***************************************************************************)
\* the patterns DeviceManager._setup_message_handlers registers
HandlerPatterns ==
    DefaultPatterns \cup {"VePro/+/+/status/em:0", "VePro/+/+/status/emdata:0"}

SvCall(op, raised, attempts, returned) ==
    [op |-> op, raised |-> raised, attempts |-> attempts, returned |-> returned]

ServiceFrame ==
    UNCHANGED <<extVars, storeVars, comp, now, calcVars, mgrVars, workers,
                bcall, client, threads, ccall>>

\* _connect_with_retry inside configure.  With the retries used up the loop
\* is not entered; an open breaker makes it return; a connection that fails
\* counts a retry and a failure and then raises, either from time.sleep (the
\* module does not import time) or as "Numero massimo di tentativi
\* raggiunto", and configure records one more failure and raises again.
connect_with_retry(sv, b, up, t_now) ==
    LET ce == can_execute(b, t_now)
    IN  IF ~(sv.retry_count < max_retries)
        THEN [sv |-> sv, b |-> b, attempts |-> 0, raised |-> FALSE]
        ELSE IF ~ce.ret
        THEN [sv |-> sv, b |-> ce.b, attempts |-> 0, raised |-> FALSE]
        ELSE IF up
        THEN [sv |-> [sv EXCEPT !.session = "connecting", !.loop = TRUE,
                                !.retry_count = 0],
              b |-> record_success(ce.b), attempts |-> 1, raised |-> FALSE]
        ELSE [sv |-> [sv EXCEPT !.retry_count = @ + 1],
              b |-> record_failure(record_failure(ce.b, t_now), t_now),
              attempts |-> 1, raised |-> TRUE]

\* configure(host, port): a new paho client, then _connect_with_retry, all
\* under self._lock
SvcConfigure ==
    LET fresh == [service EXCEPT !.has_client = TRUE, !.session = "none", !.loop = FALSE]
        r == connect_with_retry(fresh, breaker, broker.up, now)
    IN  /\ comp = "service"
        /\ service.lock = "free"
        /\ r.b.failures <= MaxFailures
        /\ service' = r.sv
        /\ breaker' = r.b
        /\ svcall' = SvCall("configure", r.raised, r.attempts, TRUE)
        /\ UNCHANGED broker
        /\ ServiceFrame

\* _on_connect(rc) on the network thread.  With rc = 0 it takes self._lock,
\* sets _connected and calls _restore_subscriptions, which takes self._lock
\* again: the lock is not reentrant, the callback never gets further and
\* keeps the lock.  Another rc records a failure.
SvcOnConnect(rc) ==
    /\ comp = "service"
    /\ service.session = "connecting"
    /\ service.loop
    /\ broker.up
    /\ IF rc = 0
       THEN /\ service.lock = "free"
            /\ service' = [service EXCEPT !.session = "connected", !.connected = TRUE,
                                          !.lock = "on_connect"]
            /\ UNCHANGED breaker
       ELSE /\ breaker.failures < MaxFailures
            /\ service' = [service EXCEPT !.session = "none"]
            /\ breaker' = record_failure(breaker, now)
    /\ svcall' = SvCall("on_connect", FALSE, 0, rc # 0)
    /\ UNCHANGED broker
    /\ ServiceFrame

\* _on_disconnect(rc # 0) on the network thread: _connected cleared under
\* the lock, a failure recorded
SvcConnectionLost ==
    /\ comp = "service"
    /\ service.session = "connecting"
    /\ service.loop
    /\ service.lock = "free"
    /\ breaker.failures < MaxFailures
    /\ service' = [service EXCEPT !.session = "none", !.connected = FALSE]
    /\ breaker' = record_failure(breaker, now)
    /\ svcall' = SvCall("on_disconnect", FALSE, 0, TRUE)
    /\ UNCHANGED broker
    /\ ServiceFrame

\* register_handler(topic_pattern, handler_func)
RegisterHandler(pattern) ==
    /\ comp = "service"
    /\ service.lock = "free"
    /\ service' = [service EXCEPT
                      !.message_handlers = @ \cup {pattern},
                      !.subscribed_topics =
                          IF service.connected THEN @ \cup {pattern} ELSE @]
    /\ broker' = IF service.connected /\ service.session = "connected"
                 THEN [broker EXCEPT !.subs = @ \cup {pattern}] ELSE broker
    /\ svcall' = SvCall("register_handler", FALSE, 0, TRUE)
    /\ UNCHANGED breaker
    /\ ServiceFrame

\* stop(): publish "shutting_down"; under the lock unsubscribe and clear the
\* topics and _connected; loop_stop(); disconnect(); publish "offline".  With
\* the lock held by the connect callback the call waits for it for ever.
SvcStop ==
    LET announced == Publish(broker, service.session, "shutting_down")
    IN  /\ comp = "service"
        /\ service.has_client
        /\ IF service.lock # "free"
           THEN /\ broker' = announced
                /\ UNCHANGED service
                /\ svcall' = SvCall("stop", FALSE, 0, FALSE)
           ELSE /\ broker' = Publish([announced EXCEPT !.subs = @ \ service.subscribed_topics],
                                     "none", "offline")
                /\ service' = [service EXCEPT !.subscribed_topics = {}, !.connected = FALSE,
                                              !.loop = FALSE, !.session = "none"]
                /\ svcall' = SvCall("stop", FALSE, 0, TRUE)
        /\ UNCHANGED breaker
        /\ ServiceFrame

\* the broker goes away or comes back
SvcSetBroker(up) ==
    /\ comp = "service"
    /\ broker.up # up
    /\ broker' = [broker EXCEPT !.up = up]
    /\ svcall' = SvCall("broker", FALSE, 0, TRUE)
    /\ UNCHANGED <<service, breaker>>
    /\ ServiceFrame

(***************************************************************************)
(* The pipeline on a database that refuses writes at times: every write    *)
(* (objects.create, get_or_create, save) raises while storage.writable is  *)
(* false; reads and the Redis cache work.                                  *)
(***************************************************************************)
Faults == {"calculator_faults", "dispatcher_faults"}

\* _save_interval_energy: the exception of the refused write is caught by its
\* "except Exception" and the call returns False
save_interval_energy_storage(writable, store, device_id, start_time, end_time, energy, interval_type, t_now) ==
    IF writable
    THEN save_interval_energy(store, device_id, start_time, end_time, energy,
                              interval_type, t_now)
    ELSE [saved |-> FALSE, store |-> store]

\* the database goes read-only or comes back
SetStorage(writable) ==
    /\ comp \in Faults
    /\ writable # storage.writable
    /\ storage' = [writable |-> writable, failed |-> FALSE, reported |-> FALSE]
    /\ UNCHANGED <<inbound, electrical, devcfg, race, tm, storeVars, connVars, comp, now, calcVars, mgrVars, workers>>

\* process_new_measurement(device_id, timestamp, total_energy) on this
\* database.  The call returns None whatever happens.
ProcessNewMeasurementOnStorage(device_id, timestamp, total_energy) ==
    LET valid == validate_timestamp(timestamp, now) /\ validate_energy_value(total_energy)
        had_last == device_id \in DOMAIN last_reading
        lm == last_reading[device_id].value
        time_diff == timestamp - lm.timestamp
        interval_energy == total_energy - lm.total_energy
        accepted == /\ had_last
                    /\ time_diff <= MAX_INTERVAL_SECONDS
                    /\ 0 <= interval_energy
                    /\ interval_energy <= MAX_ENERGY_PER_INTERVAL
        interval_start == round_to_interval(lm.timestamp)
        interval_end == IntervalEnd(interval_start)
        sv == save_interval_energy_storage(storage.writable, intervals, device_id,
                                           interval_start, interval_end,
                                           interval_energy, "15MIN", now)
        refused == /\ valid
                   /\ accepted
                   /\ ~storage.writable
                   /\ save_interval_energy(intervals, device_id, interval_start,
                                           interval_end, interval_energy, "15MIN", now).saved
    IN  /\ comp = "calculator_faults"
        /\ IF ~valid
           THEN /\ call' = CallRec("process_new_measurement", device_id, timestamp,
                                   total_energy, FALSE, FALSE, 0, 0, FALSE)
                /\ UNCHANGED <<last_reading, intervals, cache>>
           ELSE /\ call' = CallRec("process_new_measurement", device_id, timestamp,
                                   total_energy, TRUE, had_last,
                                   IF had_last THEN time_diff ELSE 0,
                                   IF had_last THEN interval_energy ELSE 0,
                                   accepted /\ sv.saved)
                /\ IF accepted
                   THEN /\ intervals' = sv.store
                        /\ cache' = IF sv.saved
                                    THEN invalidate_higher_caches(cache, device_id, interval_start)
                                    ELSE cache
                   ELSE UNCHANGED <<intervals, cache>>
                /\ last_reading' = store_last_measurement(last_reading, device_id, timestamp,
                                                          total_energy, now)
        /\ storage' = [storage EXCEPT !.failed = refused, !.reported = FALSE]
        /\ UNCHANGED <<inbound, electrical, devcfg, race, tm, storeVars, connVars, comp, now, recalcs, mgrVars, workers>>

\* _handle_power_message: DeviceMeasurement.objects.create raises, the
\* handler's "except Exception" returns False
handle_power_message_storage(writable, m, device_id, payload, t_now) ==
    IF writable \/ payload.kind = "nonnumeric"
    THEN handle_power_message(m, device_id, payload, t_now)
    ELSE [m |-> m, success |-> FALSE, created |-> 0, advanced |-> 0]

\* _handle_energy_message: with an accepted delta objects.create raises
\* before the baseline is written; without a row to create the baseline is
\* written and then update_last_seen raises
handle_energy_message_storage(writable, m, device_id, payload, t_now) ==
    IF writable \/ payload.kind = "nonnumeric"
    THEN handle_energy_message(m, device_id, payload, t_now)
    ELSE
        LET current_energy_total == payload.total_act
            last == m.last_energy[device_id]
            energy_delta == current_energy_total - (CHOOSE x \in last : TRUE)
            ok == /\ last # {}
                  /\ 0 <= energy_delta
                  /\ energy_delta <= MAX_ENERGY_DELTA_WH
        IN  IF ok
            THEN [m |-> m, success |-> FALSE, created |-> 0, advanced |-> 0]
            ELSE [m |-> [m EXCEPT !.last_energy =
                                     [@ EXCEPT ![device_id] = {current_energy_total}]],
                  success |-> FALSE, created |-> 0, advanced |-> 1]

\* whether the handler of this message gets as far as creating a
\* DeviceMeasurement row
creates_measurement(m, topic, device_id, payload) ==
    /\ payload.kind = "json"
    /\ \/ topic.channel = "em:0"
       \/ /\ topic.channel = "emdata:0"
          /\ m.last_energy[device_id] # {}
          /\ LET d == payload.total_act - (CHOOSE x \in m.last_energy[device_id] : TRUE)
             IN  0 <= d /\ d <= MAX_ENERGY_DELTA_WH

\* process_message(topic, data) on this database
process_message_storage(writable, m, topic, data, t_now) ==
    LET way == pm_lookup(m, topic, data)
        device_id == CHOOSE d \in find_device_for_topic(topic) : TRUE
        h == IF topic.channel = "em:0"
             THEN handle_power_message_storage(writable, m, device_id, data, t_now)
             ELSE IF topic.channel = "emdata:0"
             THEN handle_energy_message_storage(writable, m, device_id, data, t_now)
             ELSE [m |-> m, success |-> FALSE, created |-> 0, advanced |-> 0]
    IN  IF way \in {"no_device", "bad_payload"}
        THEN [m |-> m, way |-> way, ret |-> FALSE, created |-> 0, refused |-> FALSE]
        ELSE IF way = "duplicate"
        THEN [m |-> m, way |-> way, ret |-> TRUE, created |-> 0, refused |-> FALSE]
        ELSE IF h.success
             THEN [m |-> pm_mark(h.m, topic, data, t_now), way |-> way, ret |-> TRUE,
                   created |-> h.created, refused |-> FALSE]
             ELSE [m |-> h.m, way |-> way, ret |-> FALSE, created |-> h.created,
                   refused |-> ~writable /\ creates_measurement(m, topic, device_id, data)]

ProcessMessageOnStorage(topic, data) ==
    LET r == process_message_storage(storage.writable, MgrState, topic, data, now)
    IN  /\ comp = "dispatcher_faults"
        /\ Len(measurements) < MaxMeasurements
        /\ SetMgr(r.m)
        /\ mcall' = [NoMCall EXCEPT !.op = "process_message", !.topic = topic,
                                    !.payload = data, !.at = now, !.way = r.way,
                                    !.ret = r.ret, !.created = r.created]
        /\ storage' = [storage EXCEPT !.failed = r.refused, !.reported = ~r.ret]
        /\ UNCHANGED <<inbound, electrical, devcfg, race, tm, storeVars, connVars, comp, now, calcVars, workers>>

(***************************************************************************)

(* Electrical values: the power path of the DeviceManager and the device   *)
(* parsers.  The power factor is counted in units of 1.                    *)
(***************************************************************************)
\* the values a power message carries: each within and beyond its range
ElectricalPayloads ==
    [voltage : {230, 501}, current : {5, -1001}, power : {1000, 1000001},
     power_factor : {1, 2}]

DeviceParsers == {"BaseDevice", "BaseShellyMeter", "ShellyProEM"}

\* BaseDevice.validate_measurement: the range checks on power, voltage and
\* current
base_validate_measurement(measurement) ==
    /\ -1000000 <= measurement.power /\ measurement.power <= 1000000
    /\ 0 <= measurement.voltage /\ measurement.voltage <= 500
    /\ -1000 <= measurement.current /\ measurement.current <= 1000

\* BaseShellyMeter.validate_measurement: "Per ora ritorna sempre True"
shelly_validate_measurement(measurement) == TRUE

\* parse_message of a device class: the MeasurementData it returns, or None.
\* BaseShellyMeter.parse_message asks its own validate_measurement;
\* ShellyProEM.parse_message builds the MeasurementData and returns it; a
\* parser built on BaseDevice that asks validate_measurement gets the range
\* checks of the base class.
parse_message(parser, payload) ==
    IF parser = "BaseShellyMeter"
    THEN (IF shelly_validate_measurement(payload) THEN {payload} ELSE {})
    ELSE IF parser = "ShellyProEM"
    THEN {payload}
    ELSE (IF base_validate_measurement(payload) THEN {payload} ELSE {})

\* DeviceManager._handle_power_message: float() of total_act_power, a_voltage,
\* a_current and total_pf, then DeviceMeasurement.objects.create
handle_power_message_values(rows, payload) ==
    rows \cup {[power |-> payload.power, voltage |-> payload.voltage,
                current |-> payload.current, power_factor |-> payload.power_factor]}

HandlePowerMessage(payload) ==
    /\ comp = "validation"
    /\ Cardinality(electrical.rows) < MaxElectricalRows
    /\ electrical' = [electrical EXCEPT !.rows = handle_power_message_values(@, payload)]
    /\ UNCHANGED <<inbound, storage, devcfg, race, tm, storeVars, connVars, comp, now, calcVars, mgrVars, workers>>

ParseMessage(parser, payload) ==
    /\ comp = "validation"
    /\ electrical' = [electrical EXCEPT !.parsed = parse_message(parser, payload)]
    /\ UNCHANGED <<inbound, storage, devcfg, race, tm, storeVars, connVars, comp, now, calcVars, mgrVars, workers>>

(***************************************************************************)

(* Device configurations and subscriptions: the DeviceConfiguration table, *)
(* DeviceManager._load_configurations, the client's refresh methods and    *)
(* the post_save / post_delete receivers.  Every broker call succeeds.     *)
(***************************************************************************)
Configs == {"configs", "configs_signals"}

\* device.get_topics(base_topic) of the registry's device class (ShellyProEM)
RegistryTopics(d) == {[base |-> d, channel |-> "em:0/#"], [base |-> d, channel |-> "#"]}

\* DeviceConfiguration.get_mqtt_topics with a topic template: the wildcard,
\* and the two Shelly topics when the vendor is Shelly
get_mqtt_topics(d) ==
    {[base |-> d, channel |-> "#"]}
        \cup (IF d \in ShellyVendor
              THEN {[base |-> d, channel |-> "em:0"], [base |-> d, channel |-> "emdata:0"]}
              ELSE {})

DefaultTopic == [base |-> "cercollettiva/+/+", channel |-> "value"]

\* DeviceRegistry.get_device_by_vendor_model: the device, or None
get_device_by_vendor_model(d) == IF d \in Resolvable THEN {d} ELSE {}

\* DeviceManager._load_configurations with _load_single_config: nothing is
\* read once _configs_loaded is set
load_configurations(dc) ==
    IF dc.configs_loaded THEN dc
    ELSE [dc EXCEPT !.configs = {d \in ConfigDevices :
                                    /\ dc.table[d] = "active"
                                    /\ get_device_by_vendor_model(d) # {}},
                    !.configs_loaded = TRUE]

\* DeviceManager.get_subscription_topics
get_subscription_topics(dc) == UNION {RegistryTopics(d) : d \in dc.configs}

\* EnergyMQTTClient._subscribe_topics: unsubscribe what is subscribed, then
\* subscribe the manager's topics; without a connection neither call gets
\* through and the set stays as it is
subscribe_topics(dc) ==
    IF dc.is_connected
    THEN [dc EXCEPT !.subscribed_topics = get_subscription_topics(dc)]
    ELSE dc

\* EnergyMQTTClient.refresh_configurations
refresh_configurations(dc) ==
    LET loaded == load_configurations(dc)
    IN  IF loaded.is_connected THEN subscribe_topics(loaded) ELSE loaded

\* EnergyMQTTClient.force_refresh
force_refresh(dc) ==
    LET loaded == load_configurations(dc)
    IN  IF loaded.is_connected
        THEN subscribe_topics([loaded EXCEPT !.subscribed_topics = {}])
        ELSE loaded

\* EnergyMQTTClient.refresh_subscriptions
refresh_subscriptions(dc) == IF dc.is_connected THEN subscribe_topics(dc) ELSE dc

\* handle_device_configuration_change (energy/models/device.py), receiver of
\* post_save and post_delete
handle_device_configuration_change(dc) ==
    IF dc.is_connected THEN refresh_configurations(dc) ELSE dc

\* handle_device_created (energy/services/signals.py), receiver of post_save:
\* unsubscribe('#'), then subscribe the topics of every active row
handle_device_created(dc) ==
    LET active_topics == UNION {get_mqtt_topics(d) :
                                   d \in {x \in ConfigDevices : dc.table[x] = "active"}}
    IN  IF dc.is_connected
        THEN [dc EXCEPT !.subscribed_topics =
                            @ \cup (IF active_topics = {} THEN {DefaultTopic}
                                    ELSE active_topics)]
        ELSE dc

\* handle_device_deleted (energy/services/signals.py), receiver of
\* post_delete: unsubscribe the deleted row's topics
handle_device_deleted(dc, d) ==
    LET active_topics == UNION {get_mqtt_topics(x) :
                                   x \in {y \in ConfigDevices : dc.table[y] = "active"}}
    IN  IF dc.is_connected
        THEN [dc EXCEPT !.subscribed_topics =
                            (@ \ get_mqtt_topics(d))
                                \cup (IF active_topics = {} THEN {DefaultTopic} ELSE {})]
        ELSE dc

\* the receivers of post_save, in the order they are connected
post_save(dc) ==
    LET a == handle_device_configuration_change(dc)
    IN  IF comp = "configs_signals" THEN handle_device_created(a) ELSE a

\* the receivers of post_delete
post_delete(dc, d) ==
    LET a == handle_device_configuration_change(dc)
    IN  IF comp = "configs_signals" THEN handle_device_deleted(a, d) ELSE a

\* an MQTT subscription matches a topic
Matches(sub, topic) ==
    /\ sub.base = topic.base
    /\ \/ sub.channel = "#"
       \/ sub.channel = topic.channel
       \/ sub.channel = "em:0/#" /\ topic.channel = "em:0"

\* DeviceManager._find_device_for_topic: the active rows of the table, with
\* no look at the registry
find_device_in_table(table, topic) ==
    {d \in ConfigDevices : /\ table[d] = "active"
                           /\ topic.base = d
                           /\ topic.channel \in {"em:0", "emdata:0"}}

DevCfgFrame ==
    UNCHANGED <<inbound, storage, electrical, race, tm, storeVars, connVars, comp, now,
                calcVars, mgrVars, workers>>

\* _on_connect with rc = 0
CfgOnConnect ==
    /\ comp \in Configs
    /\ ~devcfg.is_connected
    /\ devcfg' = [subscribe_topics([devcfg EXCEPT !.is_connected = TRUE])
                     EXCEPT !.op = "on_connect"]
    /\ DevCfgFrame

\* _on_disconnect: the broker forgets the session's subscriptions, the
\* client keeps its set
CfgOnDisconnect ==
    /\ comp \in Configs
    /\ devcfg.is_connected
    /\ devcfg' = [devcfg EXCEPT !.is_connected = FALSE, !.op = "on_disconnect"]
    /\ DevCfgFrame

\* DeviceConfiguration.save(): a row is created, activated or deactivated
SaveConfig(d, state) ==
    /\ comp \in Configs
    /\ devcfg.table[d] # state
    /\ devcfg' = [post_save([devcfg EXCEPT !.table = [@ EXCEPT ![d] = state]])
                     EXCEPT !.op = "save"]
    /\ DevCfgFrame

\* DeviceConfiguration.delete()
DeleteConfig(d) ==
    /\ comp \in Configs
    /\ devcfg.table[d] # "absent"
    /\ devcfg' = [post_delete([devcfg EXCEPT !.table = [@ EXCEPT ![d] = "absent"]], d)
                     EXCEPT !.op = "delete"]
    /\ DevCfgFrame

RefreshConfigurations ==
    /\ comp \in Configs
    /\ devcfg' = [refresh_configurations(devcfg) EXCEPT !.op = "refresh_configurations"]
    /\ DevCfgFrame

ForceRefresh ==
    /\ comp \in Configs
    /\ devcfg' = [force_refresh(devcfg) EXCEPT !.op = "force_refresh"]
    /\ DevCfgFrame

RefreshSubscriptions ==
    /\ comp \in Configs
    /\ devcfg' = [refresh_subscriptions(devcfg) EXCEPT !.op = "refresh_subscriptions"]
    /\ DevCfgFrame

\* the broker delivers a power or energy message on a topic that one of the
\* session's subscriptions matches; _on_message hands it to process_message,
\* which stores a row when _find_device_for_topic finds the device
DeliverMessage(topic) ==
    /\ comp \in Configs
    /\ devcfg.is_connected
    /\ \E sub \in devcfg.subscribed_topics : Matches(sub, topic)
    /\ devcfg' = [devcfg EXCEPT
                     !.persisted = @ \cup find_device_in_table(devcfg.table, topic),
                     !.op = "on_message"]
    /\ DevCfgFrame

(***************************************************************************)

(* process_new_measurement called from two threads for the same device.    *)
(* The function takes no lock: cache.get, _save_interval_energy (one       *)
(* database transaction) and cache.set are its three steps.                *)
(***************************************************************************)
\* the readings the threads are called with, stamped with the current time
ConcurrentReadings == {0, 100, 105}

\* the interval step of a call that read last_measurement lm
interval_step(store, c, device_id, lm, timestamp, total_energy, t_now) ==
    LET time_diff == timestamp - lm.timestamp
        interval_energy == total_energy - lm.total_energy
        accepted == /\ time_diff <= MAX_INTERVAL_SECONDS
                    /\ 0 <= interval_energy
                    /\ interval_energy <= MAX_ENERGY_PER_INTERVAL
        interval_start == round_to_interval(lm.timestamp)
        sv == save_interval_energy(store, device_id, interval_start,
                                   IntervalEnd(interval_start), interval_energy,
                                   "15MIN", t_now)
    IN  IF accepted
        THEN [intervals |-> sv.store,
              cache |-> IF sv.saved
                        THEN invalidate_higher_caches(c, device_id, interval_start)
                        ELSE c]
        ELSE [intervals |-> store, cache |-> c]

\* process_new_measurement run from start to end: the baseline and the rows
\* afterwards
process_new_measurement(lr, store, device_id, timestamp, total_energy, t_now) ==
    IF ~(validate_timestamp(timestamp, t_now) /\ validate_energy_value(total_energy))
    THEN [last_reading |-> lr, intervals |-> store]
    ELSE [last_reading |-> store_last_measurement(lr, device_id, timestamp,
                                                  total_energy, t_now),
          intervals |-> IF device_id \in DOMAIN lr
                        THEN interval_step(store, <<>>, device_id, lr[device_id].value,
                                           timestamp, total_energy, t_now).intervals
                        ELSE store]

RaceFrame ==
    UNCHANGED <<inbound, storage, electrical, devcfg, tm, storeVars, connVars, comp, now,
                call, recalcs, mgrVars, workers>>

\* a thread enters process_new_measurement: input validation and cache.get
CallRead(w, device_id, timestamp, total_energy) ==
    /\ comp = "concurrent"
    /\ race.calls[w].pc = "idle"
    /\ race' = [calls |-> [race.calls EXCEPT ![w] =
                   IF validate_timestamp(timestamp, now) /\ validate_energy_value(total_energy)
                   THEN [pc |-> "read", timestamp |-> timestamp,
                         total_energy |-> total_energy,
                         last_measurement |->
                             IF device_id \in DOMAIN last_reading
                             THEN {last_reading[device_id].value} ELSE {}]
                   ELSE [pc |-> "done", timestamp |-> timestamp,
                         total_energy |-> total_energy, last_measurement |-> {}]],
                snap |-> IF \A v \in DOMAIN race.calls : race.calls[v].pc = "idle"
                         THEN [last_reading |-> last_reading, intervals |-> intervals]
                         ELSE race.snap]
    /\ UNCHANGED <<last_reading, intervals, cache>>
    /\ RaceFrame

\* the thread computes time_diff and interval_energy from the
\* last_measurement it read and saves the interval
CallSave(w, device_id) ==
    LET c == race.calls[w]
        r == interval_step(intervals, cache, device_id,
                           CHOOSE lm \in c.last_measurement : TRUE,
                           c.timestamp, c.total_energy, now)
    IN  /\ comp = "concurrent"
        /\ c.pc = "read"
        /\ IF c.last_measurement = {}
           THEN UNCHANGED <<intervals, cache>>
           ELSE intervals' = r.intervals /\ cache' = r.cache
        /\ race' = [race EXCEPT !.calls[w].pc = "saved"]
        /\ UNCHANGED last_reading
        /\ RaceFrame

\* the thread writes its reading as the baseline (cache.set) and returns
CallStore(w, device_id) ==
    LET c == race.calls[w]
    IN  /\ comp = "concurrent"
        /\ c.pc = "saved"
        /\ last_reading' = store_last_measurement(last_reading, device_id, c.timestamp,
                                                  c.total_energy, now)
        /\ race' = [race EXCEPT !.calls[w].pc = "done"]
        /\ UNCHANGED <<intervals, cache>>
        /\ RaceFrame

\* the callers go on: the threads are free for the next calls
CallsReturned ==
    /\ comp = "concurrent"
    /\ \A w \in DOMAIN race.calls : race.calls[w].pc \in {"idle", "done"}
    /\ \E w \in DOMAIN race.calls : race.calls[w].pc = "done"
    /\ race' = [race EXCEPT !.calls = [w \in DOMAIN race.calls |-> IdleCall]]
    /\ UNCHANGED <<last_reading, intervals, cache>>
    /\ RaceFrame

\* time passes between the calls
TickBetweenCalls(step) ==
    /\ \A w \in DOMAIN race.calls : race.calls[w].pc = "idle"
    /\ Tick(step)

(***************************************************************************)

(* ThreadManager (app/energy/mqtt/thread_manager.py).  What a method does   *)
(* inside one "with self._lock" block is one step.                         *)
(***************************************************************************)
is_alive(t, thread) == \E th \in t.alive : th.id = thread

Returned(op, name, value) == [op |-> op, name |-> name, value |-> value]

ThreadManagerFrame ==
    UNCHANGED <<inbound, storage, electrical, devcfg, race, storeVars, connVars, comp,
                now, calcVars, mgrVars, workers>>

\* self._threads.pop(name, None)
threads_pop(table, name) == [table EXCEPT ![name] = 0]

\* start_thread(name, target): under the lock, False when the name is
\* tracked with a live thread; else a new thread is tracked and then
\* started.  thread.start() raises when the system has no thread to give:
\* the entry stays in the table with a thread that never ran.
StartThread(name, started) ==
    /\ comp = "thread_manager"
    /\ IF tm.threads[name] # 0 /\ is_alive(tm, tm.threads[name])
       THEN /\ started
            /\ tm' = [tm EXCEPT !.ret = Returned("start_thread", name, FALSE)]
       ELSE /\ tm.created < MaxManagedThreads
            /\ tm' = [tm EXCEPT
                         !.threads = [@ EXCEPT ![name] = tm.created + 1],
                         !.alive = IF started
                                   THEN @ \cup {[id |-> tm.created + 1, name |-> name]}
                                   ELSE @,
                         !.created = @ + 1,
                         !.ret = IF started THEN Returned("start_thread", name, TRUE)
                                 ELSE NoReturn]
    /\ ThreadManagerFrame

\* a managed thread's target returns or raises: thread_wrapper's finally
\* pops the entry of the thread's name under the lock, and the thread ends
ThreadCompletes(th) ==
    /\ comp = "thread_manager"
    /\ th \in tm.alive
    /\ tm' = [tm EXCEPT !.threads = threads_pop(@, th.name),
                        !.alive = @ \ {th},
                        !.ret = NoReturn]
    /\ ThreadManagerFrame

\* stop_thread(name), first lock block: False when the name is not tracked,
\* else the thread is taken from the table and the lock released
StopThreadLookup(name) ==
    /\ comp = "thread_manager"
    /\ tm.stopper.pc = "idle"
    /\ IF tm.threads[name] = 0
       THEN tm' = [tm EXCEPT !.ret = Returned("stop_thread", name, FALSE)]
       ELSE tm' = [tm EXCEPT !.stopper = [NoStopper EXCEPT !.pc = "join", !.name = name,
                                                           !.thread = tm.threads[name]],
                             !.ret = NoReturn]
    /\ ThreadManagerFrame

\* stop_thread: thread.is_alive() and thread.join(timeout).  A thread that
\* has ended lets the call go on; with the thread alive the timeout can run
\* out and the call returns False.
StopThreadJoin ==
    /\ comp = "thread_manager"
    /\ tm.stopper.pc = "join"
    /\ IF is_alive(tm, tm.stopper.thread)
       THEN tm' = [tm EXCEPT !.stopper = NoStopper,
                             !.ret = Returned("stop_thread", tm.stopper.name, FALSE)]
       ELSE tm' = [tm EXCEPT !.stopper.pc = "pop", !.ret = NoReturn]
    /\ ThreadManagerFrame

\* stop_thread, second lock block: the entry of the name is popped and the
\* call returns True
StopThreadPop ==
    /\ comp = "thread_manager"
    /\ tm.stopper.pc = "pop"
    /\ tm' = [tm EXCEPT !.threads = threads_pop(@, tm.stopper.name),
                        !.stopper = NoStopper,
                        !.ret = Returned("stop_thread", tm.stopper.name, TRUE)]
    /\ ThreadManagerFrame

\* the (name, thread) pairs of the tracking table, as list(self._threads.items())
RECURSIVE Items(_, _)
Items(table, names) ==
    IF names = {} THEN <<>>
    ELSE LET n == CHOOSE x \in names : TRUE
         IN  (IF table[n] # 0 THEN <<[name |-> n, thread |-> table[n]]>> ELSE <<>>)
                 \o Items(table, names \ {n})

\* stop_all(): _running cleared, the table copied under the lock
StopAllBegin ==
    /\ comp = "thread_manager"
    /\ tm.stopper.pc = "idle"
    /\ tm.running
    /\ tm' = [tm EXCEPT !.running = FALSE,
                        !.stopper = [NoStopper EXCEPT !.pc = "all",
                                                      !.pending = Items(tm.threads, ThreadNames)],
                        !.ret = NoReturn]
    /\ ThreadManagerFrame

\* stop_all: the loop's turn for the next copied entry.  A thread that is not
\* alive is passed by; for a live one the call joins it.  With the list
\* used up the call returns all_stopped.
StopAllNext ==
    /\ comp = "thread_manager"
    /\ tm.stopper.pc = "all"
    /\ IF tm.stopper.pending = <<>>
       THEN tm' = [tm EXCEPT !.stopper = NoStopper,
                             !.ret = Returned("stop_all", "", tm.stopper.all_stopped)]
       ELSE IF is_alive(tm, Head(tm.stopper.pending).thread)
       THEN tm' = [tm EXCEPT !.stopper.pc = "all_join", !.ret = NoReturn]
       ELSE tm' = [tm EXCEPT !.stopper.pending = Tail(@), !.ret = NoReturn]
    /\ ThreadManagerFrame

\* stop_all: thread.join(timeout) has returned.  A thread still alive clears
\* all_stopped; for one that has ended the entry of its name is popped
\* under the lock.
StopAllJoin ==
    LET entry == Head(tm.stopper.pending)
    IN  /\ comp = "thread_manager"
        /\ tm.stopper.pc = "all_join"
        /\ IF is_alive(tm, entry.thread)
           THEN tm' = [tm EXCEPT !.stopper.pc = "all", !.stopper.pending = Tail(@),
                                 !.stopper.all_stopped = FALSE, !.ret = NoReturn]
           ELSE tm' = [tm EXCEPT !.threads = threads_pop(@, entry.name),
                                 !.stopper.pc = "all", !.stopper.pending = Tail(@),
                                 !.ret = NoReturn]
        /\ ThreadManagerFrame

\* one pass of _monitor_threads under the lock: entries whose thread is not
\* alive are removed
MonitorThreads ==
    /\ comp = "thread_manager"
    /\ tm.running
    /\ \E n \in ThreadNames : tm.threads[n] # 0 /\ ~is_alive(tm, tm.threads[n])
    /\ tm' = [tm EXCEPT !.threads = [n \in ThreadNames |->
                                        IF @[n] # 0 /\ ~is_alive(tm, @[n]) THEN 0 ELSE @[n]],
                        !.ret = NoReturn]
    /\ ThreadManagerFrame

(***************************************************************************)

(* EnergyMQTTClient's inbound path (energy/mqtt/client.py): the message    *)
(* callback registered with paho and the queue worker thread.              *)
(***************************************************************************)
\* _on_message raises inside its try block (and logs the error) when
\* json.loads fails, and on an emdata:0 topic when total_act cannot be
\* formatted with ":.2f"
on_message_raises(topic, data) ==
    \/ data.kind = "malformed"
    \/ topic.channel = "emdata:0" /\ data.kind = "nonnumeric"

\* EnergyMQTTClient._on_message(client, userdata, msg): json.loads, the log
\* lines, then self._device_manager.process_message(msg.topic, msg.payload).
\* Nothing is put on self._message_queue.
OnMessage(topic, data) ==
    LET raises == on_message_raises(topic, data)
        r == process_message(MgrState, topic, data, now)
    IN  /\ comp = "inbound"
        /\ Len(measurements) < MaxMeasurements
        /\ IF raises
           THEN UNCHANGED <<measurements, last_energy, msg_cache, last_seen>>
           ELSE SetMgr(r.m)
        /\ inbound' = [inbound EXCEPT
                          !.cb = [op |-> "on_message", topic |-> topic, payload |-> data,
                                  decoded |-> data.kind # "malformed",
                                  dispatched |-> ~raises,
                                  queued |-> FALSE]]
        /\ UNCHANGED <<storage, electrical, devcfg, race, tm, storeVars, connVars, comp, now, calcVars, mcall, workers>>

\* EnergyMQTTClient._process_message(msg) of the queue worker: skipped when
\* the topic was processed less than 60 seconds ago, else json.loads and
\* process_message with the decoded object
process_queued_message(ib, m, msg, t_now) ==
    IF msg.topic \in DOMAIN ib.last_refresh /\ t_now - ib.last_refresh[msg.topic] < 60
    THEN [ib |-> ib, m |-> m]
    ELSE IF msg.payload.kind = "malformed"
    THEN [ib |-> ib, m |-> m]
    ELSE [ib |-> [ib EXCEPT !.last_refresh =
                     [t \in DOMAIN @ \cup {msg.topic} |->
                         IF t = msg.topic THEN t_now ELSE @[t]]],
          m |-> process_message(m, msg.topic, msg.payload, t_now).m]

\* one turn of the loop of _process_queue: Queue.get() blocks while the
\* queue is empty; a message taken from it goes to _process_message
ProcessQueue ==
    /\ comp = "inbound"
    /\ inbound.worker = "running"
    /\ IF inbound.queue = <<>>
       THEN /\ inbound' = [inbound EXCEPT !.worker = "waiting"]
            /\ UNCHANGED <<measurements, last_energy, msg_cache, last_seen>>
       ELSE LET r == process_queued_message(
                         [inbound EXCEPT !.queue = Tail(@)], MgrState,
                         Head(inbound.queue), now)
            IN  /\ inbound' = r.ib
                /\ SetMgr(r.m)
    /\ UNCHANGED <<storage, electrical, devcfg, race, tm, storeVars, connVars, comp, now, calcVars, mcall, workers>>

(***************************************************************************)
(* Specifications                                                          *)
(***************************************************************************)

Next ==
    \/ \E step \in TickSteps : Tick(step)
    \/ \E d \in Devices, r \in Readings :
            ProcessNewMeasurement(d, now + r.off, r.v)
    \/ \E d \in Devices, t \in QueryTimes : CalculateHourly(d, t)
    \/ \E d \in Devices, t \in QueryTimes : CalculateDaily(d, t)
    \/ \E d \in Devices, t \in QueryTimes : CalculateMonthly(d, t)
    \/ \E d \in Devices, t \in QueryTimes : CalculateYearly(d, t)
    \/ \E d \in Devices, t \in QueryTimes, ty \in {"1H", "1D", "1M", "1Y"} :
            GetCachedEnergyInterval(d, t, ty)
    \/ \E d \in Devices, t \in QueryTimes, ty \in {"15MIN", "1H", "1D"} :
            RecalculateAndCache(d, t, ty)
    \/ \E topic \in Topics, data \in Payloads : ProcessMessage(topic, data)

Spec == Init /\ [][Next]_vars

InitWorkers == comp = "workers" /\ InitVars

NextWorkers ==
    \/ \E step \in TickSteps : Tick(step)
    \/ \E w \in Workers, topic \in Topics, data \in Payloads : Receive(w, topic, data)
    \/ \E w \in Workers : Handle(w)
    \/ \E w \in Workers : Mark(w)

SpecWorkers == InitWorkers /\ [][NextWorkers]_vars

InitStore == comp = "store" /\ InitVars

NextStore ==
    \/ \E step \in TickSteps : Tick(step)
    \/ \E d \in Devices, st \in SaveStarts, len \in {900, 3600}, e \in SaveEnergies,
          ty \in SaveTypes :
            SaveIntervalEnergy(d, st, st + len, e, ty)

SpecStore == InitStore /\ [][NextStore]_vars

InitBreaker == comp = "breaker" /\ InitVars

NextBreaker ==
    \/ \E step \in TickSteps : Tick(step)
    \/ RecordFailure
    \/ RecordSuccess
    \/ CanExecute

SpecBreaker == InitBreaker /\ [][NextBreaker]_vars

InitClient == comp = "client" /\ InitVars

NextClient ==
    \/ Configure
    \/ Start
    \/ StartWaitEnds
    \/ \E rc \in {0, 5} : OnConnect(rc)
    \/ ConnectionLost
    \/ \E i \in DOMAIN threads : ThreadCheck(i)
    \/ \E i \in DOMAIN threads : ThreadSleep(i)
    \/ \E i \in DOMAIN threads : ThreadAttempt(i)
    \/ Stop
    \/ Cleanup
    \/ \E up \in BOOLEAN : SetBroker(up)

SpecClient == InitClient /\ [][NextClient]_vars

InitService == comp = "service" /\ InitVars

NextService ==
    \/ \E step \in TickSteps : Tick(step)
    \/ SvcConfigure
    \/ \E rc \in {0, 5} : SvcOnConnect(rc)
    \/ SvcConnectionLost
    \/ \E pattern \in HandlerPatterns : RegisterHandler(pattern)
    \/ SvcStop
    \/ \E up \in BOOLEAN : SvcSetBroker(up)

SpecService == InitService /\ [][NextService]_vars

InitInbound == comp = "inbound" /\ InitVars

NextInbound ==
    \/ \E step \in TickSteps : Tick(step)
    \/ \E topic \in Topics, data \in Payloads : OnMessage(topic, data)
    \/ ProcessQueue

SpecInbound == InitInbound /\ [][NextInbound]_vars

InitFaults == comp \in Faults /\ InitVars

NextFaults ==
    \/ \E step \in TickSteps : Tick(step)
    \/ \E writable \in BOOLEAN : SetStorage(writable)
    \/ \E d \in Devices, r \in Readings :
            ProcessNewMeasurementOnStorage(d, now + r.off, r.v)
    \/ \E topic \in Topics, data \in Payloads : ProcessMessageOnStorage(topic, data)

SpecFaults == InitFaults /\ [][NextFaults]_vars

InitValidation == comp = "validation" /\ InitVars

NextValidation ==
    \/ \E payload \in ElectricalPayloads : HandlePowerMessage(payload)
    \/ \E parser \in DeviceParsers, payload \in ElectricalPayloads :
            ParseMessage(parser, payload)

SpecValidation == InitValidation /\ [][NextValidation]_vars

InitConfigs == comp \in Configs /\ InitVars

NextConfigs ==
    \/ CfgOnConnect
    \/ CfgOnDisconnect
    \/ \E d \in ConfigDevices, state \in {"active", "inactive"} : SaveConfig(d, state)
    \/ \E d \in ConfigDevices : DeleteConfig(d)
    \/ RefreshConfigurations
    \/ ForceRefresh
    \/ RefreshSubscriptions
    \/ \E d \in ConfigDevices, channel \in {"em:0", "emdata:0"} :
            DeliverMessage([base |-> d, channel |-> channel])

SpecConfigs == InitConfigs /\ [][NextConfigs]_vars

InitConcurrent == comp = "concurrent" /\ InitVars

NextConcurrent ==
    \/ \E step \in TickSteps : TickBetweenCalls(step)
    \/ \E w \in DOMAIN race.calls, d \in Devices, v \in ConcurrentReadings :
            CallRead(w, d, now, v)
    \/ \E w \in DOMAIN race.calls, d \in Devices : CallSave(w, d)
    \/ \E w \in DOMAIN race.calls, d \in Devices : CallStore(w, d)
    \/ CallsReturned

SpecConcurrent == InitConcurrent /\ [][NextConcurrent]_vars

InitThreadManager == comp = "thread_manager" /\ InitVars

NextThreadManager ==
    \/ \E name \in ThreadNames, started \in BOOLEAN : StartThread(name, started)
    \/ \E th \in tm.alive : ThreadCompletes(th)
    \/ \E name \in ThreadNames : StopThreadLookup(name)
    \/ StopThreadJoin
    \/ StopThreadPop
    \/ StopAllBegin
    \/ StopAllNext
    \/ StopAllJoin
    \/ MonitorThreads

SpecThreadManager == InitThreadManager /\ [][NextThreadManager]_vars

(***************************************************************************)
(* Properties.  The formulas read the state before and after a step; a     *)
(* non-stuttering step with call'.op = "process_new_measurement" is a      *)
(* process_new_measurement call with the reading recorded in call', and    *)
(* the unprimed last_reading is the baseline that call found.              *)
(***************************************************************************)
PNM == "process_new_measurement"

\* the reading of the call that has just run, as the baseline entry holds it
ReadingOf(c) == [timestamp |-> c.timestamp, total_energy |-> c.total_energy]

\* a timestamp rounded down to the quarter of an hour (midnight of the epoch
\* is a quarter boundary)
QuarterOf(t) == (t \div 900) * 900

\* the 15MIN rows of a device whose start lies in [from, to)
QuartersIn(store, d, from, to) ==
    {r \in store : /\ r.device = d
                   /\ r.interval_type = "15MIN"
                   /\ from <= r.start_time
                   /\ r.start_time < to}

\* C1: for a device with no stored baseline the first reading (v0, t0) writes
\* no interval and becomes the baseline; a following reading (v1, t1) with
\* 0 <= t1 - t0 <= 20 min and 0 <= v1 - v0 <= 100 kWh writes exactly one 15MIN
\* interval [t0 rounded down, + 15 min] with energy v1 - v0, whatever the
\* values of the cumulative counter (readings stamped in the future are left
\* out of the statement).
C1_FirstReadingThenOneInterval ==
    [][\A d \in Devices :
         (call'.op = PNM /\ call'.device = d /\ call'.timestamp <= now) =>
            IF d \notin DOMAIN last_reading
            THEN /\ intervals' = intervals
                 /\ d \in DOMAIN last_reading'
                 /\ last_reading'[d].value = ReadingOf(call')
            ELSE LET t0 == last_reading[d].value.timestamp
                     v0 == last_reading[d].value.total_energy
                     t1 == call'.timestamp
                     v1 == call'.total_energy
                     row == [device |-> d, start_time |-> QuarterOf(t0),
                             interval_type |-> "15MIN",
                             end_time |-> QuarterOf(t0) + 900,
                             energy_value |-> v1 - v0]
                 IN  (0 <= t1 - t0 /\ t1 - t0 <= 1200 /\ 0 <= v1 - v0 /\ v1 - v0 <= 100) =>
                        /\ row \in intervals'
                        /\ intervals' \ {row} \subseteq intervals
                        /\ \A r \in intervals \ intervals' :
                              /\ r.device = d
                              /\ r.start_time = row.start_time
                              /\ r.interval_type = "15MIN"
      ]_vars

\* the start of the bucket of a type that encloses a timestamp
BucketStart(ty, t) ==
    IF ty = "1H" THEN HourStart(t)
    ELSE IF ty = "1D" THEN DayStart(t)
    ELSE IF ty = "1M" THEN MonthStart(t)
    ELSE YearStart(t)

\* what calculate_<type>_energy answers for the bucket that encloses t
QueryBucket(c, store, d, ty, t, t_now) ==
    IF ty = "1H" THEN calculate_hourly_energy(c, store, d, t, t_now)
    ELSE IF ty = "1D" THEN calculate_daily_energy(c, store, d, t, t_now)
    ELSE IF ty = "1M"
         THEN calculate_monthly_energy(c, store, d, Fields(t).year, Fields(t).month, t_now)
    ELSE calculate_yearly_energy(c, store, d, Fields(t).year, t_now)

IsDispatch == comp = "manager" /\ now' = now /\ mcall'.op = "process_message"

\* C3 as the spec states it: two process_message calls in sequence with the
\* same topic (of a known device) and the same well-formed payload within the
\* duplicate timeout persist exactly one measurement; the second is recognised as a duplicate, returns as handled
\* and has no side effects.
C3_TwiceYieldsExactlyOne ==
    [][(IsDispatch /\ mcall'.repeat /\ mcall'.topic.base \in Devices
          /\ mcall'.payload.kind = "json") =>
          /\ mcall'.first_created + mcall'.created = 1
          /\ mcall'.way = "duplicate"
          /\ mcall'.ret
          /\ UNCHANGED <<measurements, last_energy, last_seen, msg_cache>>
      ]_vars

\* C3, amended: when the first of the two calls processed the message and
\* returned it as handled, the second call within the duplicate timeout is
\* recognised as a duplicate, returns as handled and has no side effects (no
\* measurement row, no change of the energy baseline, no last-seen write, no
\* new duplicate mark), so the two calls persist what the first one persisted:
\* at most one measurement.
C3_SecondCallIsDuplicate ==
    [][(IsDispatch /\ mcall'.repeat /\ mcall'.first_way = "process" /\ mcall'.first_ret) =>
          /\ mcall'.way = "duplicate"
          /\ mcall'.ret
          /\ mcall'.created = 0
          /\ mcall'.first_created + mcall'.created <= 1
          /\ UNCHANGED <<measurements, last_energy, last_seen, msg_cache>>
      ]_vars

\* C3 witness: a power message was delivered twice within the duplicate
\* timeout; the first delivery stored its row, the second was a duplicate
C3_Witness ==
    /\ mcall.op = "process_message"
    /\ mcall.repeat
    /\ mcall.first_way = "process"
    /\ mcall.first_created = 1
    /\ mcall.way = "duplicate"
    /\ mcall.at > StartTime
    /\ Len(measurements) = 1

\* two process_message calls are in flight together with the same topic and payload
Racing(w1, w2) ==
    /\ w1 # w2
    /\ workers[w1].pc # "idle"
    /\ workers[w2].pc # "idle"
    /\ workers[w1].topic = workers[w2].topic
    /\ workers[w1].payload = workers[w2].payload

\* C4: for every interleaving of two concurrent process_message calls with
\* the same topic and payload, at most one measurement row is persisted and
\* the device's energy baseline is advanced at most once.
C4_RacingDuplicatesPersistOnce ==
    \A w1, w2 \in Workers :
        Racing(w1, w2) =>
            /\ workers[w1].created + workers[w2].created <= 1
            /\ workers[w1].advanced + workers[w2].advanced <= 1

PassesInputValidation(c, t_now) ==
    /\ t_now - 730 * 86400 <= c.timestamp
    /\ c.timestamp <= t_now
    /\ 0 <= c.total_energy
    /\ c.total_energy <= 100

\* a process_message call ran _handle_energy_message on a numeric reading
EnergyReadingHandled(mc) ==
    /\ mc.op = "process_message"
    /\ mc.way = "process"
    /\ mc.topic.channel = "emdata:0"
    /\ mc.payload.kind = "json"

BaselineReplaced(d) ==
    /\ d \in DOMAIN last_reading'
    /\ \/ d \notin DOMAIN last_reading
       \/ last_reading'[d].value # last_reading[d].value

\* the reading of a call is out of bounds against the baseline the call found:
\* more than 20 minutes after it, or a delta outside 0..100 kWh
OutOfBounds(c, base) ==
    \/ c.timestamp - base.timestamp > 1200
    \/ c.total_energy - base.total_energy < 0
    \/ c.total_energy - base.total_energy > 100

\* C8 as the spec states it: a reading rejected because its elapsed time or
\* its delta is out of bounds leaves the baseline unchanged; the baseline
\* changes only on a first reading or on a reading whose interval was
\* accepted (calculator and DeviceManager alike).
C8_RejectedReadingKeepsBaseline ==
    [][/\ \A d \in Devices :
            (call'.op = PNM /\ call'.device = d /\ d \in DOMAIN last_reading
                /\ OutOfBounds(call', last_reading[d].value)) =>
                /\ d \in DOMAIN last_reading'
                /\ last_reading'[d].value = last_reading[d].value
       /\ \A d \in Devices :
            (IsDispatch /\ last_energy[d] # {} /\ last_energy'[d] # last_energy[d]) =>
                mcall'.created = 1
      ]_vars

\* C8, amended: the baseline is replaced only by a process_new_measurement
\* call whose reading passes the input validation, and then by that reading;
\* this includes the readings rejected because elapsed time or delta is out
\* of bounds, which do replace the baseline.  No other operation replaces it
\* (the cache only drops it when its lifetime ends).  The DeviceManager's
\* in-memory baseline changes only when an energy message with a numeric
\* reading is handled, accepted or not.
C8_BaselineReplacedOnlyByValidReadings ==
    [][\A d \in Devices :
         /\ BaselineReplaced(d) =>
               /\ call'.op = PNM
               /\ call'.device = d
               /\ PassesInputValidation(call', now)
               /\ last_reading'[d].value = ReadingOf(call')
         /\ (/\ call'.op = PNM
             /\ call'.device = d
             /\ d \in DOMAIN last_reading
             /\ PassesInputValidation(call', now)
             /\ OutOfBounds(call', last_reading[d].value)) =>
               /\ intervals' = intervals
               /\ d \in DOMAIN last_reading'
               /\ last_reading'[d].value = ReadingOf(call')
         /\ last_energy'[d] # last_energy[d] =>
               /\ IsDispatch
               /\ EnergyReadingHandled(mcall')
               /\ mcall'.topic.base = d
               /\ last_energy'[d] = {mcall'.payload.total_act}
      ]_vars

\* C8 witness: a reading with a negative delta wrote no interval and has
\* replaced a baseline that held a larger counter
C8_Witness ==
    /\ call.op = PNM
    /\ call.had_last
    /\ call.interval_energy < 0
    /\ ~call.saved
    /\ call.device \in DOMAIN last_reading
    /\ last_reading[call.device].value.total_energy = call.total_energy

\* the four 15MIN rows of the hour that starts at h, when all four are there
\* (starting at :00, :15, :30 and :45, each 15 minutes long)
FourQuarters(store, d, h) ==
    {r \in QuartersIn(store, d, h, h + 3600) :
        /\ r.start_time \in {h, h + 900, h + 1800, h + 2700}
        /\ r.end_time = r.start_time + 900}

\* the hours a caller can ask about: the current one and the one before
HoursAsked == {HourStart(now), HourStart(now) - 3600}

\* C9: when all four 15MIN intervals of an hour exist for a device,
\* calculate_hourly_energy on a cache miss returns the sum of the four energy
\* values and treats the hour as complete (it finds INTERVALS_PER_HOUR rows).
C9_CompleteHourSumsFourQuarters ==
    \A d \in Devices, h \in HoursAsked :
        LET r == calculate_hourly_energy(cache, intervals, d, h, now)
        IN  (Cardinality(FourQuarters(intervals, d, h)) = 4 /\ ~r.hit) =>
                /\ r.ret = SumEnergy(FourQuarters(intervals, d, h))
                /\ r.count = 4

\* the energy of a period rolled up level by level from the 15MIN rows: each
\* hour is the sum of its quarters, each day the sum of its hours, and so on,
\* which adds every 15MIN row that starts inside the period once
RolledUp(store, d, from, to) == SumEnergy(QuartersIn(store, d, from, to))

IsSave == now' = now /\ save_call'.op = "_save_interval_energy"

\* the rows stored under the key of the call recorded in c
RowsOfKey(store, c) ==
    {r \in store : /\ r.device = c.device
                   /\ r.interval_type = c.interval_type
                   /\ r.start_time = c.start_time}

\* C12: after any sequence of _save_interval_energy calls there is exactly one
\* stored interval per (device, interval type, start time) that was written:
\* a call with valid arguments (a known type, 0 <= energy <= 100 kWh, start
\* and end not in the future) leaves exactly one row under its key, carrying
\* the energy of the call, a second write with the same key replacing the
\* value, and it leaves the rows of every other key, among them the rows of
\* another type with the same device and start time, as they were.
C12_OneIntervalPerKey ==
    [][(/\ IsSave
        /\ save_call'.interval_type \in {"15MIN", "1H", "1D", "1M", "1Y"}
        /\ 0 <= save_call'.energy /\ save_call'.energy <= 100
        /\ save_call'.start_time <= now /\ save_call'.end_time <= now) =>
          /\ save_call'.saved
          /\ Cardinality(RowsOfKey(intervals', save_call')) = 1
          /\ \A r \in RowsOfKey(intervals', save_call') : r.energy_value = save_call'.energy
          /\ intervals' \ RowsOfKey(intervals', save_call')
                = intervals \ RowsOfKey(intervals, save_call')
      ]_vars

\* C13: once record_failure has been called failure_threshold (3) times with no
\* success in between, can_execute returns False until reset_timeout (60 s)
\* has elapsed since the last failure; after that exactly one call of
\* can_execute returns True (the half-open attempt) and further calls return
\* False until that attempt has been recorded with record_success or
\* record_failure.
C13_OpenThenExactlyOneHalfOpenAttempt ==
    [][(bcall'.op = "can_execute" /\ bcall' # bcall /\ breaker.failures >= 3) =>
          IF now - breaker.last_failure_time <= 60
          THEN ~bcall'.ret
          ELSE bcall'.ret <=> (bcall.grants = 0)
      ]_vars

\* the reconnect threads that stand right before self._client.reconnect()
Attempting(ts) == {i \in DOMAIN ts : ts[i].pc = "attempt"}

\* a step in which reconnect thread i sleeps for the current retry delay
IsSleep(i) ==
    /\ comp = "client"
    /\ threads[i].pc = "sleep"
    /\ Len(threads') = Len(threads)
    /\ threads'[i].pc = "attempt"

\* a step in which a reconnect thread calls self._client.reconnect()
IsReconnectAttempt ==
    /\ comp = "client"
    /\ Cardinality(Attempting(threads')) < Cardinality(Attempting(threads))

\* C14: in every reconnect episode that follows a connection drop the waits
\* before successive reconnect attempts are 1 s, 2 s, 4 s, ...: the first wait
\* of the episode is 1 s, each failed attempt doubles the wait, and the wait
\* never exceeds 60 s; after a successful reconnect the next episode starts
\* again at 1 s.
C14_BackoffStartsAtOneAndDoubles ==
    [][/\ \A i \in DOMAIN threads :
            (IsSleep(i) /\ threads[i].cause = "drop") =>
                /\ client.retry_delay <= 60
                /\ ~threads[i].slept => client.retry_delay = 1
       /\ (IsReconnectAttempt /\ Len(threads') = Len(threads)) =>
             client'.retry_delay =
                IF 2 * client.retry_delay <= 60 THEN 2 * client.retry_delay ELSE 60
      ]_vars

\* C15: from the moment the disconnect callback runs until the next connect
\* callback with rc = 0, is_connected reads False and the internal connected
\* flag is False, also while a reconnect loop is started, sleeps and makes
\* its attempts.
C15_NotConnectedUntilConnAck ==
    client.awaiting =>
        /\ ~client.is_connected
        /\ ~(client.has_client /\ client.session = "connected" /\ client.is_connected)

\* C15 witness: after a connection drop the reconnect loop has made a failed
\* attempt and another attempt has sent CONNECT, the CONNACK not yet handled
C15_Witness ==
    /\ comp = "client"
    /\ client.awaiting
    /\ client.retry_delay > 1
    /\ client.session = "connecting"
    /\ \E i \in DOMAIN threads : threads[i].cause = "drop" /\ threads[i].slept

\* C16: after stop() has been called no further reconnect attempt is made; a
\* reconnect loop that is sleeping or retrying when stop() is called ends
\* without calling reconnect().
C16_NoReconnectAfterStop ==
    [][IsReconnectAttempt => ~client.stopped]_vars

\* C19: when stop() or cleanup() returns, the subscribed-topic set is empty
\* and every thread the client started, the queue worker and any reconnect
\* loop, has terminated.
C19_StopLeavesNoTopicsNoThreads ==
    ccall \in {"stop", "cleanup"} =>
        /\ client.subscribed_topics = {}
        /\ ~client.processing_thread
        /\ Len(threads) = 0

\* a step of the service that leaves the clock alone and records a call
IsServiceCall(op) == comp = "service" /\ now' = now /\ svcall'.op = op

\* C17: while the broker stays unreachable and Stop() has not been called the
\* connection manager keeps making connection attempts: MQTTService.configure
\* with _connect_with_retry does not give up after a fixed number of
\* failures, an open circuit breaker only delays the next attempt, and no
\* failure is raised to the caller as fatal.  A configure call therefore
\* never raises, and it makes a connection attempt whenever the circuit
\* breaker is closed.
C17_ConfigureKeepsTryingNeverRaises ==
    [][IsServiceCall("configure") =>
          /\ ~svcall'.raised
          /\ breaker.state = "CLOSED" => svcall'.attempts >= 1
      ]_vars

\* C18: after the connect callback of MQTTService has succeeded, every topic
\* pattern registered through register_handler, before the connection existed
\* or while connected, is subscribed at the broker, also after a disconnect
\* followed by a reconnect.
C18_RegisteredPatternsSubscribed ==
    (comp = "service" /\ service.connected) =>
        service.message_handlers \subseteq broker.subs

\* C20: during a shutdown the offline status is published on the status topic
\* while the session is still connected, before the client loop is stopped
\* and the transport is disconnected, and the last status published by a
\* stopped client is offline: a stop() of the MQTTService called on a
\* connected session leaves "offline" as the latest status at the broker.
C20_OfflinePublishedWhileConnected ==
    [][(IsServiceCall("stop") /\ service.session = "connected") =>
          broker'.status = <<"offline">>
      ]_vars

(***************************************************************************)
(* Locking of the MQTTService and reconnect loops of the client            *)
(***************************************************************************)
\* C27: the connect callback of MQTTService with rc = 0 runs to completion:
\* it returns, and no thread is left waiting for or holding the service lock.
C27_ConnectCallbackCompletes ==
    comp = "service" =>
        /\ service.lock = "free"
        /\ svcall.op = "on_connect" => svcall.returned

\* C28: at most one reconnect loop of EnergyMQTTClient is active at any time.
C28_AtMostOneReconnectLoop ==
    comp = "client" => Len(threads) <= 1

(***************************************************************************)

(* Malformed payloads in the dispatcher                                    *)
(***************************************************************************)
\* C22: for every payload that is not valid JSON delivered on the topic of an
\* active device, process_message returns False, persists no measurement and
\* leaves the energy baseline, the duplicate marks and last_seen unchanged;
\* every valid message on the same topic is afterwards processed exactly as
\* it would have been before.
C22_MalformedPayloadDropped ==
    [][(IsDispatch /\ mcall'.payload.kind = "malformed"
          /\ find_device_for_topic(mcall'.topic) # {}) =>
          /\ ~mcall'.ret
          /\ mcall'.created = 0
          /\ UNCHANGED <<measurements, last_energy, msg_cache, last_seen>>
          /\ \A p \in Payloads :
                p.kind # "malformed" =>
                    process_message(MgrState', mcall'.topic, p, now')
                        = process_message(MgrState, mcall'.topic, p, now)
      ]_vars

\* C22 witness: a malformed payload came in on the topic of a device that has
\* a stored measurement and an energy baseline, and was dropped
C22_Witness ==
    /\ mcall.op = "process_message"
    /\ mcall.payload.kind = "malformed"
    /\ mcall.topic.base \in Devices
    /\ mcall.way = "bad_payload"
    /\ ~mcall.ret
    /\ Len(measurements) >= 1
    /\ last_energy[mcall.topic.base] # {}

(***************************************************************************)

(* Storage failures                                                        *)
(***************************************************************************)
\* C23: when the storage write of a measurement or of an interval fails, the
\* pipeline call tells its caller (it neither reports success nor absorbs the
\* error) and leaves the message unprocessed: no duplicate mark is set and
\* the energy baseline is not advanced.
C23_FailedWriteLeavesMessageUnprocessed ==
    [][(comp \in Faults /\ now' = now /\ storage'.failed) =>
          /\ storage'.reported
          /\ UNCHANGED <<last_reading, last_energy, msg_cache>>
      ]_vars

(***************************************************************************)

(* Validation of electrical values                                         *)
(***************************************************************************)
InRange(m) ==
    /\ 0 <= m.voltage /\ m.voltage <= 500
    /\ -1000 <= m.current /\ m.current <= 1000
    /\ -1000000 <= m.power /\ m.power <= 1000000
    /\ -1 <= m.power_factor /\ m.power_factor <= 1

\* C24: no measurement is persisted, and none is returned by a device parser,
\* whose voltage is outside [0, 500] V, whose current is outside
\* [-1000, 1000] A, whose power is outside [-1000000, 1000000] W or whose
\* power factor is outside [-1, 1].
C24_OnlyValuesInRangePersisted ==
    /\ \A row \in electrical.rows : InRange(row)
    /\ \A m \in electrical.parsed : InRange(m)

(***************************************************************************)

(* Device configurations and subscriptions                                 *)
(***************************************************************************)
\* C25: an active device whose vendor and model the DeviceRegistry does not
\* resolve is excluded: after connect, the refresh methods and the post-save
\* and post-delete receivers none of its topics is subscribed, and no message
\* on its topics is persisted.
C25_UnresolvableDeviceExcluded ==
    \A d \in ConfigDevices :
        (devcfg.table[d] = "active" /\ d \notin Resolvable) =>
            /\ \A t \in devcfg.subscribed_topics : t.base # d
            /\ d \notin devcfg.persisted

\* the topics of the devices that are active and resolvable
ExpectedTopics(table) ==
    UNION {RegistryTopics(d) : d \in {x \in Resolvable : table[x] = "active"}}

\* C29: after refresh_configurations or force_refresh has run while
\* connected, the subscribed-topic set equals the topics of the devices that
\* are active and resolvable at that moment.
C29_RefreshFollowsActiveDevices ==
    (devcfg.op \in {"refresh_configurations", "force_refresh"} /\ devcfg.is_connected) =>
        devcfg.subscribed_topics = ExpectedTopics(devcfg.table)

(***************************************************************************)

(* Concurrent calls of process_new_measurement                             *)
(***************************************************************************)
\* the baseline and the rows after the calls of threads a and b have run one
\* after the other, from the state the first of them started in
SerialOutcome(a, b) ==
    LET d == CHOOSE x \in Devices : TRUE
        first == process_new_measurement(race.snap.last_reading, race.snap.intervals, d,
                                         race.calls[a].timestamp,
                                         race.calls[a].total_energy, now)
    IN  process_new_measurement(first.last_reading, first.intervals, d,
                                race.calls[b].timestamp, race.calls[b].total_energy, now)

C30_OneTrackedThreadPerName ==
    comp = "thread_manager" =>
        /\ \A th1, th2 \in tm.alive : th1.name = th2.name => th1 = th2
        /\ \A th \in tm.alive : tm.threads[th.name] = th.id
        /\ (tm.ret.op = "stop_thread" /\ tm.ret.value) =>
              \A th \in tm.alive : th.name # tm.ret.name

(***************************************************************************)

(* Inbound path of EnergyMQTTClient                                        *)
(***************************************************************************)
\* C21: the broker callback _on_message does no parsing and no dispatch
\* itself; it hands every inbound message to the bounded queue, whose length
\* never exceeds its maximum, and returns.
C21_CallbackOnlyEnqueues ==
    /\ Len(inbound.queue) <= message_queue_maxsize
    /\ inbound.cb.op = "on_message" =>
          /\ ~inbound.cb.decoded
          /\ ~inbound.cb.dispatched
          /\ inbound.cb.queued

====
